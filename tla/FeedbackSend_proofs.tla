------------------------ MODULE FeedbackSend_proofs ------------------------
(***************************************************************************)
(* Proofs about FeedbackSend, for any payloads, report ids, answers, Stops *)
(* and restarts.                                                           *)
(***************************************************************************)
EXTENDS FeedbackSend, FiniteSetTheorems, SequenceTheorems, TLAPS

-----------------------------------------------------------------------------
(* Lists of rows *)

Payloads == Bytes \cup {0}

(* A row of the report with this payload, or with none. *)
Copy(rows, id, b) == \E i \in 1 .. Len(rows) : rows[i].id = id /\ rows[i].bytes = b

(* One row for a report, and a payload wherever a failure may need it.     *)
RowList(rows) ==
    /\ rows \in Seq(Row)
    /\ \A i, j \in 1 .. Len(rows) : rows[i].id = rows[j].id => i = j
    /\ \A i \in 1 .. Len(rows) : rows[i].status \in {"Failed", "Sending"} => rows[i].bytes # 0

LEMMA RowFacts ==
  /\ \A r \in Row : r.id \in Ids /\ r.status \in Statuses /\ r.bytes \in Payloads
  /\ \A id \in Ids, status \in Statuses, b \in Payloads :
       [id |-> id, status |-> status, bytes |-> b] \in Row
  /\ \A b \in Bytes : b # 0
BY PayloadAssumption DEF Row, Payloads

LEMMA SeqFacts ==
  ASSUME NEW s \in Seq(Row)
  PROVE  /\ Len(s) \in Nat /\ DOMAIN s = 1 .. Len(s)
         /\ \A i \in 1 .. Len(s) : s[i] \in Row /\ s[i].id \in Ids /\ s[i].status \in Statuses
                                                /\ s[i].bytes \in Payloads
BY LenProperties, ElementOfSeq, RowFacts

LEMMA NoRowList == RowList(<<>>) /\ \A id, b : ~Copy(<<>>, id, b)
BY EmptySeq DEF RowList, Copy

LEMMA CopyType ==
  ASSUME NEW s, RowList(s), NEW id, NEW b, Copy(s, id, b)
  PROVE  id \in Ids /\ b \in Payloads
BY SeqFacts DEF RowList, Copy

LEMMA CopyOne ==
  ASSUME NEW s, RowList(s), NEW id, NEW b, NEW c, Copy(s, id, b), Copy(s, id, c)
  PROVE  b = c
BY DEF RowList, Copy

LEMMA HasCopy ==
  ASSUME NEW s, RowList(s), NEW id
  PROVE  Has(s, id) <=> \E b \in Payloads : Copy(s, id, b)
BY SeqFacts DEF RowList, Copy, Has

(* What RowOf finds. *)
LEMMA RowOfFacts ==
  ASSUME NEW s, RowList(s), NEW id, Has(s, id)
  PROVE  /\ IndexOf(s, id) \in 1 .. Len(s)
         /\ s[IndexOf(s, id)].id = id
         /\ RowOf(s, id) \in Row /\ RowOf(s, id).id = id
         /\ Copy(s, id, RowOf(s, id).bytes)
         /\ RowOf(s, id).status \in {"Failed", "Sending"} => RowOf(s, id).bytes # 0
<1>1. IndexOf(s, id) \in DOMAIN s /\ s[IndexOf(s, id)].id = id
  BY DEF Has, IndexOf
<1> QED BY <1>1, SeqFacts DEF RowList, RowOf, Copy

(* A list of as many rows, one for each of the old. *)
LEMMA MapFacts ==
  ASSUME NEW s, RowList(s), NEW t, t = [i \in DOMAIN s |-> t[i]],
         \A i \in DOMAIN s : t[i] \in Row /\ t[i].id = s[i].id,
         \A i \in DOMAIN s : t[i].status \in {"Failed", "Sending"} => t[i].bytes # 0
  PROVE  RowList(t) /\ Len(t) = Len(s)
<1>1. Len(s) \in Nat /\ DOMAIN s = 1 .. Len(s)
  BY SeqFacts DEF RowList
<1>2. t \in [1 .. Len(s) -> Row]
  BY <1>1
<1>3. t \in Seq(Row)
  BY <1>1, <1>2, SeqDef
<1>4. DOMAIN t = 1 .. Len(s) /\ DOMAIN t = 1 .. Len(t) /\ Len(t) \in Nat
  BY <1>1, <1>2, <1>3, LenProperties
<1>5. Len(t) = Len(s)
  BY <1>1, <1>4
<1> QED BY <1>1, <1>3, <1>5 DEF RowList

LEMMA SetRowFacts ==
  ASSUME NEW s, RowList(s), NEW id \in Ids, NEW status \in Statuses, NEW b \in Payloads,
         status \in {"Failed", "Sending"} => b # 0
  PROVE  /\ RowList(SetRow(s, id, status, b)) /\ Len(SetRow(s, id, status, b)) = Len(s)
         /\ \A x, c : Copy(SetRow(s, id, status, b), x, c) <=>
                        \/ x # id /\ Copy(s, x, c)
                        \/ x = id /\ c = b /\ Has(s, id)
<1>1. Len(s) \in Nat /\ DOMAIN s = 1 .. Len(s)
  BY SeqFacts DEF RowList
<1>2. PICK t : t = SetRow(s, id, status, b)
  OBVIOUS
<1>3. PICK row : row = [id |-> id, status |-> status, bytes |-> b]
  OBVIOUS
<1>4. row \in Row /\ row.id = id /\ row.status = status /\ row.bytes = b
  BY <1>3, RowFacts
<1>5. t = [i \in DOMAIN s |-> IF s[i].id = id THEN row ELSE s[i]]
  BY <1>2, <1>3 DEF SetRow
<1>6. \A i \in DOMAIN s : t[i] = IF s[i].id = id THEN row ELSE s[i]
  BY <1>5
<1>7. t = [i \in DOMAIN s |-> t[i]]
  BY <1>5, <1>6
<1>8. \A i \in DOMAIN s : t[i] \in Row /\ t[i].id = s[i].id
  BY <1>1, <1>4, <1>6, SeqFacts DEF RowList
<1>9. \A i \in DOMAIN s : t[i].status \in {"Failed", "Sending"} => t[i].bytes # 0
  BY <1>1, <1>4, <1>6 DEF RowList
<1>10. RowList(t) /\ Len(t) = Len(s)
  BY <1>7, <1>8, <1>9, MapFacts
<1>11. \A x, c : Copy(t, x, c) <=> \/ x # id /\ Copy(s, x, c)
                                   \/ x = id /\ c = b /\ Has(s, id)
  BY <1>1, <1>4, <1>6, <1>10 DEF Copy, Has
<1> QED BY <1>2, <1>10, <1>11

(* FeedbackStore::load changes the status only. *)
LEMMA LoadedFacts ==
  ASSUME NEW s, RowList(s)
  PROVE  /\ RowList(Loaded(s))
         /\ \A x, c : Copy(Loaded(s), x, c) <=> Copy(s, x, c)
         /\ Loaded(Loaded(s)) = Loaded(s)
<1>1. Len(s) \in Nat /\ DOMAIN s = 1 .. Len(s)
  BY SeqFacts DEF RowList
<1>2. PICK t : t = Loaded(s)
  OBVIOUS
<1>3. \A i \in DOMAIN s : t[i] = IF s[i].status = "Sending" THEN [s[i] EXCEPT !.status = "Failed"]
                                                            ELSE s[i]
  BY <1>2 DEF Loaded
<1>4. ASSUME NEW i \in DOMAIN s
      PROVE  /\ t[i] \in Row /\ t[i].id = s[i].id /\ t[i].bytes = s[i].bytes
             /\ t[i].status = IF s[i].status = "Sending" THEN "Failed" ELSE s[i].status
  <2>1. PICK r \in Row : r = s[i]
    BY <1>1, SeqFacts DEF RowList
  <2>2. CASE r.status = "Sending"
    <3>1. PICK u : u = [r EXCEPT !.status = "Failed"]
      OBVIOUS
    <3>2. u \in Row /\ u.id = r.id /\ u.bytes = r.bytes /\ u.status = "Failed"
      BY <3>1 DEF Row, Statuses
    <3>3. t[i] = u
      BY <1>3, <2>1, <2>2, <3>1
    <3> QED BY <2>1, <2>2, <3>2, <3>3
  <2>3. CASE r.status # "Sending"
    BY <1>3, <2>1, <2>3
  <2> QED BY <2>2, <2>3
<1>5. t = [i \in DOMAIN s |-> t[i]]
  BY <1>2 DEF Loaded
<1>6. \A i \in DOMAIN s : t[i].status \in {"Failed", "Sending"} => t[i].bytes # 0
  BY <1>1, <1>4 DEF RowList
<1>7. RowList(t) /\ Len(t) = Len(s)
  BY <1>4, <1>5, <1>6, MapFacts
<1>8. \A x, c : Copy(t, x, c) <=> Copy(s, x, c)
  BY <1>1, <1>4, <1>7 DEF Copy
<1>9. Loaded(t) = t
  <2>1. DOMAIN t = DOMAIN s
    BY <1>5
  <2>2. \A i \in DOMAIN t : t[i].status # "Sending"
    BY <1>4, <2>1
  <2>3. Loaded(t) = [i \in DOMAIN t |-> t[i]]
    BY <2>2 DEF Loaded
  <2> QED BY <1>5, <2>1, <2>3
<1> QED BY <1>2, <1>7, <1>8, <1>9

(* A new row in front. *)
LEMMA FrontFacts ==
  ASSUME NEW s, RowList(s), NEW r \in Row, ~Has(s, r.id),
         r.status \in {"Failed", "Sending"} => r.bytes # 0
  PROVE  /\ RowList(<<r>> \o s) /\ Len(<<r>> \o s) = Len(s) + 1
         /\ \A x, c : Copy(<<r>> \o s, x, c) <=> (x = r.id /\ c = r.bytes) \/ Copy(s, x, c)
<1>1. s \in Seq(Row) /\ Len(s) \in Nat /\ DOMAIN s = 1 .. Len(s)
  BY SeqFacts DEF RowList
<1>2. <<r>> \in Seq(Row) /\ Len(<<r>>) = 1 /\ <<r>>[1] = r
  OBVIOUS
<1>3. PICK t : t = <<r>> \o s
  OBVIOUS
<1>4. /\ t \in Seq(Row) /\ Len(t) = Len(s) + 1
      /\ \A i \in 1 .. Len(s) + 1 : t[i] = IF i <= 1 THEN <<r>>[i] ELSE s[i - 1]
  BY <1>1, <1>2, <1>3, ConcatProperties
<1>5. t[1] = r /\ \A i \in 1 .. Len(s) : t[i + 1] = s[i]
  BY <1>1, <1>2, <1>4
<1>6. \A i \in 1 .. Len(t) : t[i] = IF i = 1 THEN r ELSE s[i - 1]
  BY <1>1, <1>2, <1>4
<1>7. \A i \in 1 .. Len(s) : s[i].id # r.id
  BY <1>1 DEF Has
<1>8. RowList(t)
  <2>1. ASSUME NEW i \in 1 .. Len(t), NEW j \in 1 .. Len(t), t[i].id = t[j].id PROVE i = j
    <3>1. \A n \in 1 .. Len(t) : n = 1 \/ n - 1 \in 1 .. Len(s)
      BY <1>1, <1>4
    <3>2. CASE i = 1 /\ j = 1
      BY <3>2
    <3>3. CASE i = 1 /\ j # 1
      BY <1>6, <1>7, <2>1, <3>1, <3>3
    <3>4. CASE i # 1 /\ j = 1
      BY <1>6, <1>7, <2>1, <3>1, <3>4
    <3>5. CASE i # 1 /\ j # 1
      <4>1. i - 1 \in 1 .. Len(s) /\ j - 1 \in 1 .. Len(s) /\ s[i - 1].id = s[j - 1].id
        BY <1>6, <2>1, <3>1, <3>5
      <4>2. i - 1 = j - 1
        BY <4>1 DEF RowList
      <4> QED BY <1>4, <4>2
    <3> QED BY <3>2, <3>3, <3>4, <3>5
  <2>2. \A i \in 1 .. Len(t) : t[i].status \in {"Failed", "Sending"} => t[i].bytes # 0
    BY <1>1, <1>4, <1>6 DEF RowList
  <2> QED BY <1>4, <2>1, <2>2 DEF RowList
<1>9. \A x, c : Copy(t, x, c) <=> (x = r.id /\ c = r.bytes) \/ Copy(s, x, c)
  <2> TAKE x, c
  <2>1. ASSUME Copy(t, x, c) PROVE (x = r.id /\ c = r.bytes) \/ Copy(s, x, c)
    <3>1. PICK i \in 1 .. Len(t) : t[i].id = x /\ t[i].bytes = c
      BY <1>4, <2>1 DEF Copy
    <3>2. CASE i = 1
      BY <1>6, <3>1, <3>2
    <3>3. CASE i # 1
      <4>1. i - 1 \in 1 .. Len(s) /\ t[i] = s[i - 1]
        BY <1>1, <1>4, <1>6, <3>3
      <4> QED BY <1>1, <3>1, <4>1 DEF Copy
    <3> QED BY <3>2, <3>3
  <2>2. x = r.id /\ c = r.bytes => Copy(t, x, c)
    BY <1>1, <1>4, <1>5 DEF Copy
  <2>3. ASSUME Copy(s, x, c) PROVE Copy(t, x, c)
    <3>1. PICK i \in 1 .. Len(s) : s[i].id = x /\ s[i].bytes = c
      BY <2>3 DEF Copy
    <3>2. i + 1 \in 1 .. Len(t) /\ t[i + 1] = s[i]
      BY <1>1, <1>4, <1>5, <3>1
    <3> QED BY <3>1, <3>2 DEF Copy
  <2> QED BY <2>1, <2>2, <2>3
<1> QED BY <1>3, <1>4, <1>8, <1>9

(* What retain leaves. *)
LEMMA WithoutFacts ==
  ASSUME NEW s, RowList(s), NEW id
  PROVE  /\ RowList(Without(s, id))
         /\ \A x, c : Copy(Without(s, id), x, c) <=> x # id /\ Copy(s, x, c)
         /\ ~Has(Without(s, id), id)
<1>1. s \in Seq(Row) /\ Len(s) \in Nat /\ DOMAIN s = 1 .. Len(s)
  BY SeqFacts DEF RowList
<1>2. CASE ~Has(s, id)
  <2>1. Without(s, id) = s
    BY <1>2 DEF Without
  <2>2. \A c : ~Copy(s, id, c)
    BY <1>1, <1>2 DEF Copy, Has
  <2> QED BY <1>2, <2>1, <2>2
<1>3. CASE Has(s, id)
  <2>1. PICK k \in 1 .. Len(s) : k = IndexOf(s, id) /\ s[k].id = id
    BY <1>3, RowOfFacts
  <2>2. PICK a, b, t : a = SubSeq(s, 1, k - 1) /\ b = SubSeq(s, k + 1, Len(s)) /\ t = a \o b
    OBVIOUS
  <2>3. Without(s, id) = t
    BY <1>3, <2>1, <2>2 DEF Without
  <2>4. /\ a \in Seq(Row) /\ Len(a) = k - 1
        /\ \A i \in 1 .. k - 1 : a[i] = s[i]
    <3>1. \A i \in 1 .. k - 1 : s[i] \in Row
      BY <1>1, SeqFacts
    <3>2. 1 \in Int /\ k - 1 \in Int
      OBVIOUS
    <3>3. /\ a \in Seq(Row) /\ Len(a) = IF 1 <= k - 1 THEN k - 1 - 1 + 1 ELSE 0
          /\ \A i \in 1 .. k - 1 - 1 + 1 : a[i] = s[1 + i - 1]
      BY <2>2, <3>1, <3>2, SubSeqProperties
    <3> QED BY <3>3
  <2>5. /\ b \in Seq(Row) /\ Len(b) = Len(s) - k
        /\ \A i \in 1 .. Len(s) - k : b[i] = s[k + i]
    <3>1. \A i \in k + 1 .. Len(s) : s[i] \in Row
      BY <1>1, SeqFacts
    <3>2. k + 1 \in Int /\ Len(s) \in Int
      BY <1>1
    <3>3. /\ b \in Seq(Row) /\ Len(b) = IF k + 1 <= Len(s) THEN Len(s) - (k + 1) + 1 ELSE 0
          /\ \A i \in 1 .. Len(s) - (k + 1) + 1 : b[i] = s[k + 1 + i - 1]
      BY <2>2, <3>1, <3>2, SubSeqProperties
    <3>. Len(s) - (k + 1) + 1 = Len(s) - k /\ (k + 1 <= Len(s) \/ Len(s) - k = 0)
      BY <1>1, <2>1
    <3>4. Len(b) = Len(s) - k
      BY <1>1, <2>1, <3>3
    <3>5. ASSUME NEW i \in 1 .. Len(s) - k PROVE b[i] = s[k + i]
      <4>1. i \in 1 .. Len(s) - (k + 1) + 1
        OBVIOUS
      <4>2. b[i] = s[k + 1 + i - 1]
        BY <3>3, <4>1
      <4>3. k + 1 + i - 1 = k + i
        BY <1>1, <2>1
      <4> QED BY <4>2, <4>3
    <3> QED BY <3>3, <3>4, <3>5
  <2>6. /\ t \in Seq(Row) /\ Len(t) = Len(s) - 1
        /\ \A i \in 1 .. Len(s) - 1 : t[i] = IF i < k THEN s[i] ELSE s[i + 1]
    <3>1. a \in Seq(Row) /\ b \in Seq(Row) /\ t = a \o b
      BY <2>2, <2>4, <2>5
    <3>2. /\ t \in Seq(Row) /\ Len(t) = Len(a) + Len(b)
          /\ \A i \in 1 .. Len(a) + Len(b) : t[i] = IF i <= Len(a) THEN a[i] ELSE b[i - Len(a)]
      BY <3>1, ConcatProperties
    <3>3. Len(a) = k - 1 /\ Len(a) + Len(b) = Len(s) - 1 /\ Len(t) = Len(s) - 1
      BY <1>1, <2>4, <2>5, <3>2
    <3>4. ASSUME NEW i \in 1 .. Len(s) - 1, i < k PROVE t[i] = s[i]
      <4>1. i \in 1 .. k - 1
        BY <1>1, <3>4
      <4>2. t[i] = a[i]
        BY <1>1, <3>2, <3>3, <4>1
      <4> QED BY <2>4, <4>1, <4>2
    <3>5. ASSUME NEW i \in 1 .. Len(s) - 1, ~(i < k) PROVE t[i] = s[i + 1]
      <4>1. i - (k - 1) \in 1 .. Len(s) - k /\ k + (i - (k - 1)) = i + 1
        BY <1>1, <3>5
      <4>2. t[i] = b[i - (k - 1)]
        BY <1>1, <3>2, <3>3, <3>5
      <4> QED BY <2>5, <4>1, <4>2
    <3> QED BY <3>2, <3>3, <3>4, <3>5
  <2>7. RowList(t)
    <3>1. ASSUME NEW i \in 1 .. Len(t), NEW j \in 1 .. Len(t), t[i].id = t[j].id PROVE i = j
      <4>1. PICK m \in 1 .. Len(s) : t[i] = s[m] /\ m = IF i < k THEN i ELSE i + 1
        BY <1>1, <2>6
      <4>2. PICK n \in 1 .. Len(s) : t[j] = s[n] /\ n = IF j < k THEN j ELSE j + 1
        BY <1>1, <2>6
      <4>3. m = n
        BY <1>1, <3>1, <4>1, <4>2 DEF RowList
      <4> QED BY <2>6, <4>1, <4>2, <4>3
    <3>2. \A i \in 1 .. Len(t) : t[i].status \in {"Failed", "Sending"} => t[i].bytes # 0
      BY <1>1, <2>6 DEF RowList
    <3> QED BY <2>6, <3>1, <3>2 DEF RowList
  <2>8. \A x, c : Copy(t, x, c) => x # id /\ Copy(s, x, c)
    <3>1. ASSUME NEW i \in 1 .. Len(t)
          PROVE  \E j \in 1 .. Len(s) : j # k /\ t[i] = s[j]
      BY <1>1, <2>6
    <3>2. \A j \in 1 .. Len(s) : j # k => s[j].id # id
      BY <2>1 DEF RowList
    <3> QED BY <3>1, <3>2 DEF Copy
  <2>9. \A x, c : x # id /\ Copy(s, x, c) => Copy(t, x, c)
    <3>1. ASSUME NEW j \in 1 .. Len(s), j # k
          PROVE  \E i \in 1 .. Len(t) : t[i] = s[j]
      <4>1. CASE j < k
        BY <1>1, <2>6, <4>1
      <4>2. CASE j > k
        <5>1. j - 1 \in 1 .. Len(t) /\ t[j - 1] = s[j]
          BY <1>1, <2>6, <4>2
        <5> QED BY <5>1
      <4> QED BY <3>1, <4>1, <4>2
    <3> QED BY <2>1, <3>1 DEF Copy
  <2>10. ~Has(t, id)
    BY <2>7, <2>8, HasCopy
  <2> QED BY <2>3, <2>7, <2>8, <2>9, <2>10
<1> QED BY <1>2, <1>3

-----------------------------------------------------------------------------
(* The state a frame works on *)

RowLists == {s \in Seq(Row) : RowList(s)}

Drafts == {NoDraft} \cup [id : Ids, bytes : Bytes, step : {"edit", "sending", "sent"}]

FB == [messages : RowLists, draft : Drafts, sending : Ids \cup {0},
       refreshing : BOOLEAN, dirty : BOOLEAN]

Outcomes == {"Failed", "Received", "Answered", "Unknown"}

LEMMA IdFacts == Ids \subseteq Nat /\ 0 \notin Ids
BY IdsAssumption DEF Ids

LEMMA RowListsFacts == \A s : s \in RowLists <=> RowList(s)
BY DEF RowLists, RowList

LEMMA DraftFacts ==
  ASSUME NEW d \in Drafts
  PROVE  /\ d.id \in Ids \cup {0} /\ d.id \in Nat
         /\ d.id = 0 <=> d = NoDraft
         /\ d.step \in {"closed", "edit", "sending", "sent"}
         /\ d.step \in {"edit", "sending", "sent"} => d.id \in Ids /\ d.bytes \in Bytes
         /\ d = NoDraft \/ (d.id \in Ids /\ d.bytes \in Bytes)
         /\ d.step = "closed" <=> d = NoDraft
         /\ NoDraft.id = 0 /\ NoDraft.step = "closed"
<1>1. NoDraft.id = 0 /\ NoDraft.step = "closed"
  BY DEF NoDraft
<1>2. CASE d = NoDraft
  BY <1>1, <1>2
<1>3. CASE d \in [id : Ids, bytes : Bytes, step : {"edit", "sending", "sent"}]
  <2>1. d.id \in Ids /\ d.bytes \in Bytes /\ d.step \in {"edit", "sending", "sent"}
    BY <1>3
  <2> QED BY <1>1, <2>1, IdFacts
<1> QED BY <1>2, <1>3 DEF Drafts

LEMMA DraftBuilt ==
  /\ NoDraft \in Drafts
  /\ \A id \in Ids, b \in Bytes, step \in {"edit", "sending", "sent"} :
       [id |-> id, bytes |-> b, step |-> step] \in Drafts
BY DEF Drafts

LEMMA StepSet ==
  ASSUME NEW d \in Drafts, d # NoDraft, NEW step \in {"edit", "sending", "sent"}
  PROVE  /\ [d EXCEPT !.step = step] \in Drafts
         /\ [d EXCEPT !.step = step].id = d.id
         /\ [d EXCEPT !.step = step].bytes = d.bytes
         /\ [d EXCEPT !.step = step].step = step
<1>1. PICK next : next = [d EXCEPT !.step = step]
  OBVIOUS
<1>2. d \in [id : Ids, bytes : Bytes, step : {"edit", "sending", "sent"}]
  BY DEF Drafts
<1>3. /\ next \in [id : Ids, bytes : Bytes, step : {"edit", "sending", "sent"}]
      /\ next.id = d.id /\ next.bytes = d.bytes /\ next.step = step
  BY <1>1, <1>2
<1> QED BY <1>1, <1>3 DEF Drafts

LEMMA FBFacts ==
  ASSUME NEW fb \in FB
  PROVE  /\ RowList(fb.messages) /\ fb.messages \in Seq(Row)
         /\ fb.draft \in Drafts
         /\ fb.sending \in Ids \cup {0}
         /\ fb.refreshing \in BOOLEAN /\ fb.dirty \in BOOLEAN
BY DEF FB, RowLists

LEMMA FreshFacts ==
  ASSUME NEW s, RowList(s)
  PROVE  /\ Fresh(s) \in FB
         /\ Fresh(s).messages = s /\ Fresh(s).draft = NoDraft /\ Fresh(s).sending = 0
         /\ ~Fresh(s).refreshing /\ ~Fresh(s).dirty
<1>1. s \in RowLists
  BY RowListsFacts
<1> QED BY <1>1, DraftBuilt DEF Fresh, FB

LEMMA ReleasedFacts ==
  ASSUME NEW fb \in FB, NEW id \in Ids
  PROVE  /\ Released(fb, id) \in FB
         /\ Released(fb, id).messages = fb.messages
         /\ Released(fb, id).draft = fb.draft
         /\ Released(fb, id).sending = IF fb.sending = id THEN 0 ELSE fb.sending
         /\ Released(fb, id).refreshing = fb.refreshing
         /\ Released(fb, id).dirty = fb.dirty
<1>1. PICK next : next = [fb EXCEPT !.sending = IF fb.sending = id THEN 0 ELSE fb.sending]
  OBVIOUS
<1>2. /\ next \in FB
      /\ next.messages = fb.messages /\ next.draft = fb.draft
      /\ next.sending = IF fb.sending = id THEN 0 ELSE fb.sending
      /\ next.refreshing = fb.refreshing /\ next.dirty = fb.dirty
  BY <1>1 DEF FB
<1>3. next = Released(fb, id)
  BY <1>1 DEF Released
<1> QED BY <1>2, <1>3

(* Where the outcome of a send is told. *)
LEMMA ApplySendFacts ==
  ASSUME NEW fb \in FB, NEW id \in Ids, NEW status \in Outcomes, ~Copy(fb.messages, id, 0)
  PROVE  /\ ApplySendResult(fb, id, status) \in FB
         /\ ApplySendResult(fb, id, status).sending = IF fb.sending = id THEN 0 ELSE fb.sending
         /\ ApplySendResult(fb, id, status).refreshing = fb.refreshing
         /\ fb.dirty => ApplySendResult(fb, id, status).dirty
         /\ \/ ApplySendResult(fb, id, status).dirty
            \/ ApplySendResult(fb, id, status).messages = fb.messages
         /\ ApplySendResult(fb, id, status).draft.id = fb.draft.id
         /\ \/ ApplySendResult(fb, id, status).draft = fb.draft
            \/ /\ fb.draft.id = id /\ Has(fb.messages, id)
               /\ ApplySendResult(fb, id, status).draft.step = "edit" => status = "Failed"
         /\ \/ ~Has(fb.messages, id)
            \/ fb.draft.id # id
            \/ /\ status = "Failed" => ApplySendResult(fb, id, status).draft.step = "edit"
               /\ status # "Failed" => ApplySendResult(fb, id, status).draft.step = "sent"
         /\ \A x, c : Copy(ApplySendResult(fb, id, status).messages, x, c) =>
                        \/ Copy(fb.messages, x, c)
                        \/ x = id /\ c = 0 /\ status # "Failed" /\ Has(fb.messages, id)
         /\ \A x : Has(ApplySendResult(fb, id, status).messages, x) <=> Has(fb.messages, x)
         /\ status = "Failed" =>
              \A x, c : Copy(ApplySendResult(fb, id, status).messages, x, c) <=> Copy(fb.messages, x, c)
<1>1. PICK next : next = ApplySendResult(fb, id, status)
  OBVIOUS
<1>2. PICK rel \in FB : rel = Released(fb, id)
  BY ReleasedFacts
<1>3. /\ rel.messages = fb.messages /\ rel.draft = fb.draft
      /\ rel.sending = IF fb.sending = id THEN 0 ELSE fb.sending
      /\ rel.refreshing = fb.refreshing /\ rel.dirty = fb.dirty
  BY <1>2, ReleasedFacts
<1>4. RowList(fb.messages) /\ fb.draft \in Drafts /\ fb.dirty \in BOOLEAN
  BY FBFacts
<1>5. CASE ~Has(fb.messages, id)
  <2>1. next = rel
    BY <1>1, <1>2, <1>5 DEF ApplySendResult
  <2>2. \A x, c : Copy(fb.messages, x, c) => x # id
    BY <1>4, <1>5, HasCopy, CopyType
  <2> QED BY <1>1, <1>3, <1>5, <2>1, <2>2
<1>6. CASE Has(fb.messages, id)
  <2>1. PICK b : b = RowOf(fb.messages, id).bytes
    OBVIOUS
  <2>2. b \in Payloads /\ b # 0 /\ Copy(fb.messages, id, b)
    BY <1>4, <1>6, <2>1, RowOfFacts, CopyType
  <2>3. PICK left : left = PayloadLeft(fb.messages, id, status)
    OBVIOUS
  <2>4. left = IF status = "Failed" THEN b ELSE 0
    BY <2>1, <2>3 DEF PayloadLeft
  <2>5. left \in Payloads /\ status \in Statuses /\ (status \in {"Failed", "Sending"} => left # 0)
    BY <2>2, <2>4 DEF Payloads, Outcomes, Statuses
  <2>6. PICK rows : rows = SetRow(fb.messages, id, status, left)
    OBVIOUS
  <2>7. /\ RowList(rows)
        /\ \A x, c : Copy(rows, x, c) <=> ((x # id /\ Copy(fb.messages, x, c)) \/ (x = id /\ c = left))
    BY <1>4, <1>6, <2>5, <2>6, SetRowFacts
  <2>8. PICK step : step = IF status = "Failed" THEN "edit" ELSE "sent"
    OBVIOUS
  <2>9. PICK draft : draft = IF fb.draft.id = id THEN [fb.draft EXCEPT !.step = step] ELSE fb.draft
    OBVIOUS
  <2>10. /\ draft \in Drafts /\ draft.id = fb.draft.id
         /\ fb.draft.id = id => draft.step = step
    <3>1. CASE fb.draft.id = id
      <4>1. fb.draft # NoDraft
        BY <1>4, <3>1, DraftFacts, IdFacts
      <4>2. step \in {"edit", "sending", "sent"} /\ draft = [fb.draft EXCEPT !.step = step]
        BY <2>8, <2>9, <3>1
      <4> QED BY <1>4, <4>1, <4>2, StepSet
    <3>2. CASE fb.draft.id # id
      BY <1>4, <2>9, <3>2
    <3> QED BY <3>1, <3>2
  <2>11. PICK out : out = Outcome(rel, id, status)
    OBVIOUS
  <2>12. out = [rel EXCEPT !.messages = rows, !.draft = draft]
    BY <1>3, <2>3, <2>6, <2>8, <2>9, <2>11 DEF Outcome
  <2>13. /\ out \in FB /\ out.messages = rows /\ out.draft = draft
         /\ out.sending = rel.sending /\ out.refreshing = rel.refreshing
    BY <1>2, <2>7, <2>10, <2>12, RowListsFacts DEF FB
  <2>14. next = [out EXCEPT !.dirty = TRUE]
    BY <1>1, <1>2, <1>6, <2>11 DEF ApplySendResult
  <2>15. /\ next \in FB /\ next.messages = rows /\ next.draft = draft /\ next.dirty
         /\ next.sending = rel.sending /\ next.refreshing = rel.refreshing
    BY <2>13, <2>14 DEF FB
  <2>16. \A x : Has(rows, x) <=> Has(fb.messages, x)
    <3> TAKE x
    <3>1. Has(rows, x) <=> \E c \in Payloads : Copy(rows, x, c)
      BY <2>7, HasCopy
    <3>2. Has(fb.messages, x) <=> \E c \in Payloads : Copy(fb.messages, x, c)
      BY <1>4, HasCopy
    <3> QED BY <1>6, <2>5, <2>7, <3>1, <3>2
  <2>17. \A c : Copy(fb.messages, id, c) => c = b
    BY <1>4, <2>2, CopyOne
  <2>18. \A x, c : Copy(rows, x, c) =>
            (Copy(fb.messages, x, c) \/ (x = id /\ c = 0 /\ status # "Failed" /\ Has(fb.messages, id)))
    BY <1>6, <2>2, <2>4, <2>7
  <2>19. status = "Failed" => \A x, c : Copy(rows, x, c) <=> Copy(fb.messages, x, c)
    BY <2>2, <2>4, <2>7, <2>17
  <2>20. fb.draft.id = id \/ draft = fb.draft
    BY <2>9
  <2>21. draft.step = "edit" /\ fb.draft.id = id => status = "Failed"
    BY <2>8, <2>10
  <2> QED BY <1>1, <1>3, <1>6, <2>8, <2>10, <2>15, <2>16, <2>18, <2>19, <2>20, <2>21
<1> QED BY <1>5, <1>6

LEMMA ResentFacts ==
  ASSUME NEW fb \in FB, NEW id \in Ids, Has(fb.messages, id), RowOf(fb.messages, id).bytes # 0
  PROVE  /\ Resent(fb, id) \in FB
         /\ Resent(fb, id).sending = id
         /\ Resent(fb, id).refreshing = fb.refreshing
         /\ Resent(fb, id).dirty
         /\ Resent(fb, id).draft.id = fb.draft.id
         /\ Resent(fb, id).draft.bytes = fb.draft.bytes
         /\ IF fb.draft.id = id THEN Resent(fb, id).draft.step = "sending"
                                ELSE Resent(fb, id).draft = fb.draft
         /\ \A x, c : Copy(Resent(fb, id).messages, x, c) <=> Copy(fb.messages, x, c)
         /\ RowOf(Resent(fb, id).messages, id).bytes = RowOf(fb.messages, id).bytes
         /\ Has(Resent(fb, id).messages, id)
<1>1. PICK next : next = Resent(fb, id)
  OBVIOUS
<1>2. RowList(fb.messages) /\ fb.draft \in Drafts
  BY FBFacts
<1>3. PICK b : b = RowOf(fb.messages, id).bytes
  OBVIOUS
<1>4. b \in Payloads /\ b # 0 /\ Copy(fb.messages, id, b)
  BY <1>2, <1>3, RowOfFacts, CopyType
<1>5. PICK rows : rows = SetRow(fb.messages, id, "Sending", b)
  OBVIOUS
<1>6. /\ RowList(rows)
      /\ \A x, c : Copy(rows, x, c) <=> ((x # id /\ Copy(fb.messages, x, c)) \/ (x = id /\ c = b))
  <2>1. "Sending" \in Statuses
    BY DEF Statuses
  <2> QED BY <1>2, <1>4, <1>5, <2>1, SetRowFacts
<1>7. \A x, c : Copy(rows, x, c) <=> Copy(fb.messages, x, c)
  BY <1>2, <1>4, <1>6, CopyOne
<1>8. PICK draft : draft = IF fb.draft.id = id THEN [fb.draft EXCEPT !.step = "sending"] ELSE fb.draft
  OBVIOUS
<1>9. /\ draft \in Drafts /\ draft.id = fb.draft.id /\ draft.bytes = fb.draft.bytes
      /\ IF fb.draft.id = id THEN draft.step = "sending" ELSE draft = fb.draft
  <2>1. CASE fb.draft.id = id
    <3>1. fb.draft # NoDraft
      BY <1>2, <2>1, DraftFacts, IdFacts
    <3>2. draft = [fb.draft EXCEPT !.step = "sending"]
      BY <1>8, <2>1
    <3> QED BY <1>2, <2>1, <3>1, <3>2, StepSet
  <2>2. CASE fb.draft.id # id
    BY <1>2, <1>8, <2>2
  <2> QED BY <2>1, <2>2
<1>10. next = [fb EXCEPT !.messages = rows, !.draft = draft, !.sending = id, !.dirty = TRUE]
  BY <1>1, <1>3, <1>5, <1>8 DEF Resent
<1>11. /\ next \in FB /\ next.messages = rows /\ next.draft = draft /\ next.sending = id
       /\ next.refreshing = fb.refreshing /\ next.dirty
  BY <1>6, <1>9, <1>10, RowListsFacts DEF FB
<1>12. Has(rows, id) /\ RowOf(rows, id).bytes = b
  <2>1. Copy(rows, id, b)
    BY <1>6
  <2>2. Has(rows, id)
    BY <1>4, <1>6, <2>1, HasCopy
  <2>3. Copy(rows, id, RowOf(rows, id).bytes)
    BY <1>6, <2>2, RowOfFacts
  <2> QED BY <1>6, <2>1, <2>2, <2>3, CopyOne
<1> QED BY <1>1, <1>3, <1>7, <1>9, <1>11, <1>12

(* The report goes out under its draft's id, or under a fresh one.         *)
LEMMA StageSendFacts ==
  ASSUME NEW fb \in FB, minted \in Nat, fb.draft.step = "edit", SendId(fb) \in Ids,
         ~Copy(fb.messages, fb.draft.id, 0), fb.draft.id <= minted,
         \A x, c : Copy(fb.messages, x, c) => x <= minted
  PROVE  /\ StageSend(fb) \in FB
         /\ StageSend(fb).sending = SendId(fb)
         /\ StageSend(fb).refreshing = fb.refreshing
         /\ StageSend(fb).dirty
         /\ StageSend(fb).draft.id = SendId(fb)
         /\ StageSend(fb).draft.bytes = fb.draft.bytes
         /\ StageSend(fb).draft.step = "sending"
         /\ \A x, c : Copy(StageSend(fb).messages, x, c) <=>
              \/ x = SendId(fb) /\ c = fb.draft.bytes
              \/ x # SendId(fb) /\ x # fb.draft.id /\ Copy(fb.messages, x, c)
         /\ RowOf(StageSend(fb).messages, SendId(fb)).bytes = fb.draft.bytes
         /\ Has(StageSend(fb).messages, SendId(fb))
         /\ \/ SendId(fb) = minted + 1
            \/ /\ SendId(fb) = fb.draft.id
               /\ Has(fb.messages, SendId(fb)) => Copy(fb.messages, SendId(fb), fb.draft.bytes)
<1>1. PICK next : next = StageSend(fb)
  OBVIOUS
<1>2. PICK id \in Ids : id = SendId(fb)
  OBVIOUS
<1>3. PICK b : b = fb.draft.bytes
  OBVIOUS
<1>4. /\ RowList(fb.messages) /\ fb.draft \in Drafts /\ fb.draft.id \in Ids /\ b \in Bytes
      /\ b # 0 /\ b \in Payloads
  BY <1>3, FBFacts, DraftFacts, RowFacts DEF Payloads
<1>5. \/ /\ Has(fb.messages, fb.draft.id) /\ RowOf(fb.messages, fb.draft.id).bytes # b
         /\ id = minted + 1
      \/ /\ ~(Has(fb.messages, fb.draft.id) /\ RowOf(fb.messages, fb.draft.id).bytes # b)
         /\ id = fb.draft.id
  BY <1>2, <1>3 DEF SendId
<1>6. ~Has(fb.messages, minted + 1)
  BY <1>4, HasCopy
<1>7. CASE Has(fb.messages, id)
  <2>1. id = fb.draft.id /\ RowOf(fb.messages, id).bytes = b
    BY <1>5, <1>6, <1>7
  <2>2. Copy(fb.messages, id, b)
    BY <1>4, <1>7, <2>1, RowOfFacts
  <2>3. next = Resent(fb, id)
    BY <1>1, <1>2, <1>7 DEF StageSend
  <2>4. /\ next \in FB /\ next.sending = id /\ next.refreshing = fb.refreshing /\ next.dirty
        /\ next.draft.id = id /\ next.draft.bytes = b /\ next.draft.step = "sending"
        /\ \A x, c : Copy(next.messages, x, c) <=> Copy(fb.messages, x, c)
        /\ RowOf(next.messages, id).bytes = b /\ Has(next.messages, id)
    BY <1>3, <1>4, <1>7, <2>1, <2>3, ResentFacts
  <2>5. \A x, c : Copy(next.messages, x, c) <=>
                    ((x = id /\ c = b) \/ (x # id /\ x # fb.draft.id /\ Copy(fb.messages, x, c)))
    BY <1>4, <2>1, <2>2, <2>4, CopyOne
  <2> QED BY <1>1, <1>2, <1>3, <2>1, <2>2, <2>4, <2>5
<1>8. CASE ~Has(fb.messages, id)
  <2>1. PICK r \in Row : r = [id |-> id, status |-> "Sending", bytes |-> b]
    BY <1>4, RowFacts DEF Statuses
  <2>2. r.id = id /\ r.bytes = b
    BY <2>1
  <2>3. PICK rest : rest = Without(fb.messages, fb.draft.id)
    OBVIOUS
  <2>4. /\ RowList(rest)
        /\ \A x, c : Copy(rest, x, c) <=> (x # fb.draft.id /\ Copy(fb.messages, x, c))
    BY <1>4, <2>3, WithoutFacts
  <2>5. ~Has(rest, id) /\ \A c : ~Copy(fb.messages, id, c)
    <3>1. \A c : ~Copy(fb.messages, id, c)
      BY <1>4, <1>8, HasCopy, CopyType
    <3> QED BY <2>4, <3>1, HasCopy
  <2>6. PICK rows : rows = <<r>> \o rest
    OBVIOUS
  <2>7. /\ RowList(rows)
        /\ \A x, c : Copy(rows, x, c) <=> ((x = id /\ c = b) \/ Copy(rest, x, c))
    BY <1>4, <2>2, <2>4, <2>5, <2>6, FrontFacts
  <2>8. PICK draft : draft = [id |-> id, bytes |-> b, step |-> "sending"]
    OBVIOUS
  <2>9. draft \in Drafts /\ draft.id = id /\ draft.bytes = b /\ draft.step = "sending"
    BY <1>4, <2>8, DraftBuilt
  <2>10. next = [fb EXCEPT !.messages = rows, !.draft = draft, !.sending = id, !.dirty = TRUE]
    BY <1>1, <1>2, <1>3, <1>8, <2>1, <2>3, <2>6, <2>8 DEF StageSend
  <2>11. /\ next \in FB /\ next.messages = rows /\ next.draft = draft /\ next.sending = id
         /\ next.refreshing = fb.refreshing /\ next.dirty
    BY <2>7, <2>9, <2>10, RowListsFacts DEF FB
  <2>12. Has(rows, id) /\ RowOf(rows, id).bytes = b
    <3>1. Copy(rows, id, b)
      BY <2>7
    <3>2. Has(rows, id)
      BY <1>4, <2>7, <3>1, HasCopy
    <3>3. Copy(rows, id, RowOf(rows, id).bytes)
      BY <2>7, <3>2, RowOfFacts
    <3> QED BY <2>7, <3>1, <3>2, <3>3, CopyOne
  <2>13. \A x, c : Copy(rows, x, c) <=>
                    ((x = id /\ c = b) \/ (x # id /\ x # fb.draft.id /\ Copy(fb.messages, x, c)))
    BY <2>4, <2>5, <2>7
  <2>14. id = minted + 1 \/ id = fb.draft.id
    BY <1>5
  <2> QED BY <1>1, <1>2, <1>3, <1>8, <2>9, <2>11, <2>12, <2>13, <2>14
<1> QED BY <1>7, <1>8

Words == {"Answered", "Received", "Unknown"}

(* What a status refresh tells the rows. *)
LEMMA ApplyStatusFacts ==
  ASSUME NEW fb \in FB, NEW rows, \A id \in DOMAIN rows : rows[id] \in Words
  PROVE  /\ ApplyStatusRows(fb, rows) \in FB
         /\ ApplyStatusRows(fb, rows).draft = fb.draft
         /\ ApplyStatusRows(fb, rows).sending = fb.sending
         /\ ~ApplyStatusRows(fb, rows).refreshing
         /\ ApplyStatusRows(fb, rows).dirty
         /\ \A x, c : Copy(ApplyStatusRows(fb, rows).messages, x, c) <=> Copy(fb.messages, x, c)
<1> DEFINE word(r) == IF r.id \in DOMAIN rows THEN [r EXCEPT !.status = rows[r.id]] ELSE r
<1>1. PICK next : next = ApplyStatusRows(fb, rows)
  OBVIOUS
<1>2. PICK s : s = fb.messages
  OBVIOUS
<1>3. RowList(s) /\ DOMAIN s = 1 .. Len(s)
  BY <1>2, FBFacts, SeqFacts DEF RowList
<1>4. PICK t : t = [i \in DOMAIN s |-> word(s[i])]
  OBVIOUS
<1>5. ASSUME NEW i \in DOMAIN s
      PROVE  /\ t[i] \in Row /\ t[i].id = s[i].id /\ t[i].bytes = s[i].bytes
             /\ t[i].status = s[i].status \/ t[i].status \in Words
  <2>1. PICK r \in Row : r = s[i]
    BY <1>3, SeqFacts DEF RowList
  <2>2. t[i] = word(r)
    BY <1>4, <2>1
  <2>3. CASE r.id \in DOMAIN rows
    <3>1. PICK v \in Words : v = rows[r.id]
      BY <2>3
    <3>2. PICK u : u = [r EXCEPT !.status = v]
      OBVIOUS
    <3>3. u \in Row /\ u.id = r.id /\ u.bytes = r.bytes /\ u.status = v
      BY <3>2 DEF Row, Words, Statuses
    <3>4. t[i] = u
      BY <2>2, <2>3, <3>1, <3>2
    <3> QED BY <2>1, <3>3, <3>4
  <2>4. CASE r.id \notin DOMAIN rows
    BY <2>1, <2>2, <2>4
  <2> QED BY <2>3, <2>4
<1>6. t = [i \in DOMAIN s |-> t[i]]
  BY <1>4
<1>7. \A i \in DOMAIN s : t[i].status \in {"Failed", "Sending"} => t[i].bytes # 0
  BY <1>3, <1>5 DEF RowList, Words
<1>8. RowList(t) /\ Len(t) = Len(s)
  BY <1>3, <1>5, <1>6, <1>7, MapFacts
<1>9. \A x, c : Copy(t, x, c) <=> Copy(s, x, c)
  BY <1>3, <1>5, <1>8 DEF Copy
<1>10. next = [fb EXCEPT !.messages = t, !.refreshing = FALSE, !.dirty = TRUE]
  BY <1>1, <1>2, <1>4 DEF ApplyStatusRows
<1>11. /\ next \in FB /\ next.messages = t /\ next.draft = fb.draft /\ next.sending = fb.sending
       /\ ~next.refreshing /\ next.dirty
  BY <1>8, <1>10, RowListsFacts DEF FB
<1> QED BY <1>1, <1>2, <1>9, <1>11

(* What a commit over a changed state takes from the frame. *)
LEMMA MergeFacts ==
  ASSUME live \in FB, NEW b \in FB, NEW p \in FB
  PROVE  /\ MergeFeedback(b, p) \in FB
         /\ MergeFeedback(b, p).messages \in {live.messages, p.messages}
         /\ \/ MergeFeedback(b, p).draft = p.draft
            \/ MergeFeedback(b, p).draft = live.draft /\ p.draft = b.draft
         /\ MergeFeedback(b, p).sending = MergeBusyOpt(live.sending, b.sending, p.sending, 0)
         /\ MergeFeedback(b, p).refreshing = MergeBusy(live.refreshing, b.refreshing, p.refreshing)
         /\ MergeFeedback(b, p).dirty <=> (live.dirty \/ (p.dirty /\ ~b.dirty))
<1>1. PICK next : next = MergeFeedback(b, p)
  OBVIOUS
<1>2. PICK rows, draft, sending, refreshing, dirty :
        /\ rows = KeepLen(live.messages, b.messages, p.messages)
        /\ draft = TakeUi(live.draft, b.draft, p.draft)
        /\ sending = MergeBusyOpt(live.sending, b.sending, p.sending, 0)
        /\ refreshing = MergeBusy(live.refreshing, b.refreshing, p.refreshing)
        /\ dirty = (live.dirty \/ (p.dirty /\ ~b.dirty))
  OBVIOUS
<1>3. next = [messages |-> rows, draft |-> draft, sending |-> sending,
              refreshing |-> refreshing, dirty |-> dirty]
  BY <1>1, <1>2 DEF MergeFeedback
<1>4. rows \in {live.messages, p.messages} /\ RowList(rows)
  BY <1>2, FBFacts DEF KeepLen
<1>5. draft \in Drafts /\ (draft = p.draft \/ (draft = live.draft /\ p.draft = b.draft))
  BY <1>2, FBFacts DEF TakeUi
<1>6. sending \in Ids \cup {0} /\ refreshing \in BOOLEAN /\ dirty \in BOOLEAN
  BY <1>2, FBFacts DEF MergeBusyOpt, MergeBusy
<1>7. next \in FB
  BY <1>3, <1>4, <1>5, <1>6, RowListsFacts DEF FB
<1>8. /\ next.messages = rows /\ next.draft = draft /\ next.sending = sending
      /\ next.refreshing = refreshing /\ next.dirty = dirty
  BY <1>3
<1>9. next.dirty <=> (live.dirty \/ (p.dirty /\ ~b.dirty))
  BY <1>2, <1>8
<1> QED BY <1>1, <1>2, <1>4, <1>5, <1>7, <1>8, <1>9

-----------------------------------------------------------------------------
(* The inductive invariant *)

SendJobs == [id : Ids, stopped : BOOLEAN, phase : {"post", "answer", "done"}, bytes : Bytes,
             result : Outcomes \cup {"Sending"}]

Answers == {<<>>} \cup UNION {[S -> Words] : S \in SUBSET Ids}

PollJobs == [ids : SUBSET Ids, stopped : BOOLEAN, phase : {"fetch", "done"}, rows : Answers]

TypeInv ==
    /\ live \in FB /\ base \in FB /\ paint \in FB
    /\ layout \in BOOLEAN /\ stale \in BOOLEAN
    /\ raised \subseteq {"send", "poll"}
    /\ minted \in 0 .. MaxIds
    /\ sends \subseteq SendJobs /\ polls \subseteq PollJobs
    /\ \A w \in sends : w.phase = "done" => w.result \in Outcomes
    /\ queued \in [some : BOOLEAN, rows : RowLists] /\ disk \in RowLists
    /\ unread \in BOOLEAN /\ lost \in BOOLEAN
    /\ stored \in [Ids -> Payloads] /\ answered \subseteq Ids
    /\ ~layout => base = Fresh(<<>>) /\ paint = Fresh(<<>>) /\ ~stale

(* A send holds the lock that names it, in live and in every frame that    *)
(* could take a second one.                                                *)
SendInv ==
    /\ \A v, w \in sends : v = w
    /\ \A w \in sends : w.id = live.sending
    /\ layout =>
         /\ paint.sending = 0 => base.sending = 0 /\ live.sending = 0
         /\ ~stale => paint.sending = live.sending
         /\ paint.sending # base.sending => live.sending \in {0, paint.sending} /\ "send" \in raised
         /\ "send" \in raised => paint.sending # 0

(* The same for the status refresh and its latch. *)
PollInv ==
    /\ \A v, w \in polls : v = w
    /\ polls # {} => live.refreshing
    /\ layout =>
         /\ ~paint.refreshing => ~base.refreshing /\ ~live.refreshing
         /\ ~stale => (paint.refreshing <=> live.refreshing)
         /\ paint.refreshing /\ ~base.refreshing => "poll" \in raised
         /\ "poll" \in raised => paint.refreshing

(* No id beyond the last one minted is in use.                             *)
MintedInv ==
    /\ \A x \in Ids, b \in Payloads :
         (\/ Copy(live.messages, x, b) \/ Copy(paint.messages, x, b)
          \/ Copy(queued.rows, x, b) \/ Copy(disk, x, b)) => x <= minted
    /\ live.draft.id <= minted /\ base.draft.id <= minted /\ paint.draft.id <= minted
    /\ \A w \in sends : w.id <= minted

(* Who may still fail has its payload: a report on its way in live's rows  *)
(* and the frame's, and the draft that is being edited again.  A delivery  *)
(* is what gives a payload up, and the frame's rows show it too before it  *)
(* can send.                                                               *)
PayloadInv ==
    /\ \A w \in sends : ~Copy(live.messages, w.id, 0) /\ ~Copy(paint.messages, w.id, 0)
    /\ layout /\ paint.sending = 0 =>
         \A x \in Ids : Copy(live.messages, x, 0) /\ Has(paint.messages, x) => Copy(paint.messages, x, 0)
    /\ \A d \in {live.draft, paint.draft} :
         d.step = "edit" => ~Copy(live.messages, d.id, 0) /\ ~Copy(paint.messages, d.id, 0)

(* The draft that is going out waits for its worker, and no worker changes *)
(* live's draft behind a frame that could send.                            *)
DraftInv ==
    /\ \A w \in sends :
         /\ layout /\ paint.draft.id = w.id => paint.draft.step = "sending"
         /\ ~layout /\ live.draft.id = w.id => live.draft.step = "sending"
    /\ layout /\ (paint.sending = 0 \/ sends # {}) => live.draft = base.draft
    /\ layout => live.draft.id = base.draft.id

RowsInv == MintedInv /\ PayloadInv /\ DraftInv

FeedbackInv == TypeInv /\ SendInv /\ PollInv /\ RowsInv

(* Where a payload is known under a report's id. *)
Known(x, b) ==
    \/ Copy(live.messages, x, b) \/ Copy(queued.rows, x, b) \/ Copy(disk, x, b)
    \/ <<x, b>> \in posted
    \/ \E w \in sends : w.id = x /\ w.bytes = b

Traced(x) == \E b \in Payloads : Known(x, b)

Seen(x, b) == Known(x, b) \/ Copy(paint.messages, x, b)

(* An id has one payload, whoever holds it.                                *)
UniqueInv == \A x \in Ids, b, c \in Bytes : Seen(x, b) /\ Seen(x, c) => b = c

KnownInv ==
    /\ posted \subseteq Ids \X Bytes
    /\ \A x \in Ids, b \in Payloads : Known(x, b) => x <= minted

(* An id that left any trace keeps its row, where the draft that would     *)
(* send under it can see it.                                               *)
ShownInv ==
    /\ layout /\ paint.draft.step = "edit" /\ Traced(paint.draft.id) =>
         Has(paint.messages, paint.draft.id) /\ Has(live.messages, paint.draft.id)
    /\ ~layout /\ live.draft.step = "edit" /\ Traced(live.draft.id) =>
         Has(live.messages, live.draft.id)
    /\ layout /\ live.draft.step = "edit" /\ Traced(live.draft.id) /\ paint.draft = base.draft =>
         Has(paint.messages, live.draft.id) /\ Has(live.messages, live.draft.id)
    /\ \A w \in sends :
         layout /\ paint.draft.id = w.id /\ Has(live.messages, w.id) => Has(paint.messages, w.id)
    /\ layout /\ paint.sending = 0 /\ Has(paint.messages, paint.draft.id)
         /\ ~Has(live.messages, paint.draft.id) => paint.draft.step = "edit"

OnceInv == UniqueInv /\ KnownInv /\ ShownInv

SavedRows == IF queued.some THEN queued.rows ELSE disk

(* The rows the captured ones would be loaded as are on their way, or went *)
(* with a write that failed.                                               *)
SavedInv ==
    /\ unread => ~queued.some
    /\ ~layout => unread \/ lost \/ live.dirty \/ Loaded(SavedRows) = Loaded(live.messages)
    /\ layout =>
         /\ unread \/ lost \/ Loaded(SavedRows) = Loaded(base.messages)
         /\ base.dirty => live.dirty
         /\ paint.dirty \/ paint.messages = base.messages
         /\ live.dirty \/ live.messages = base.messages

(* Without a Stop no worker ends behind its lock. *)
LockInv ==
    /\ stops \in Nat
    /\ stops = 0 => (\A w \in sends : ~w.stopped) /\ (live.sending # 0 => sends # {})

-----------------------------------------------------------------------------
(* What the actions do to a state of the invariant *)

LEMMA StateFacts ==
  ASSUME FeedbackInv
  PROVE  /\ RowList(live.messages) /\ RowList(base.messages) /\ RowList(paint.messages)
         /\ live.draft \in Drafts /\ base.draft \in Drafts /\ paint.draft \in Drafts
         /\ minted \in Nat /\ minted <= MaxIds
         /\ \A x, b : Copy(live.messages, x, b) \/ Copy(paint.messages, x, b) => x <= minted
         /\ \A x, b : Copy(queued.rows, x, b) \/ Copy(disk, x, b) => x <= minted
         /\ RowList(queued.rows) /\ RowList(disk)
         /\ minted + 1 \notin {0} /\ (minted < MaxIds => minted + 1 \in Ids)
         /\ \A w \in sends : w.id \in Ids /\ w.bytes \in Bytes
         /\ ~layout => /\ base.draft = NoDraft /\ paint.draft = NoDraft
                       /\ \A x, b : ~Copy(paint.messages, x, b)
                       /\ \A x : ~Has(paint.messages, x)
<1> USE DEF FeedbackInv, TypeInv
<1>1. /\ RowList(live.messages) /\ RowList(base.messages) /\ RowList(paint.messages)
      /\ live.draft \in Drafts /\ base.draft \in Drafts /\ paint.draft \in Drafts
  BY FBFacts
<1>2. minted \in Nat /\ minted <= MaxIds
  BY IdsAssumption
<1>3. RowList(queued.rows) /\ RowList(disk)
  BY RowListsFacts
<1>4. \A x, b : Copy(live.messages, x, b) \/ Copy(paint.messages, x, b) => x <= minted
  BY <1>1, CopyType DEF RowsInv, MintedInv, PayloadInv, DraftInv
<1>5. \A x, b : Copy(queued.rows, x, b) \/ Copy(disk, x, b) => x <= minted
  BY <1>3, CopyType DEF RowsInv, MintedInv, PayloadInv, DraftInv
<1>6. minted + 1 \notin {0} /\ (minted < MaxIds => minted + 1 \in Ids)
  BY <1>2, IdsAssumption DEF Ids
<1>7. \A w \in sends : w.id \in Ids /\ w.bytes \in Bytes
  BY DEF SendJobs
<1>8. ASSUME ~layout
      PROVE  /\ base.draft = NoDraft /\ paint.draft = NoDraft
             /\ \A x, b : ~Copy(paint.messages, x, b)
             /\ \A x : ~Has(paint.messages, x)
  <2>1. base = Fresh(<<>>) /\ paint = Fresh(<<>>)
    BY <1>8
  <2>2. base.draft = NoDraft /\ paint.draft = NoDraft /\ paint.messages = <<>>
    BY <2>1, NoRowList, FreshFacts
  <2>3. \A x, b : ~Copy(paint.messages, x, b)
    BY <2>2, NoRowList
  <2> QED BY <1>1, <2>2, <2>3, HasCopy
<1> QED BY <1>1, <1>2, <1>3, <1>4, <1>5, <1>6, <1>7, <1>8

(* An edit of the frame's copy that starts no worker. *)
EditsOf(id) == Discard(id) \/ EditAndResend(id)

Edits == OpenDraft \/ ChangeDraft \/ CloseDraft \/ Coffee \/ \E id \in Ids : EditsOf(id)

(* What any such edit may do. *)
Edited(next, fresh) ==
    /\ next \in FB
    /\ next.sending = paint.sending /\ next.refreshing = paint.refreshing
    /\ paint.dirty => next.dirty
    /\ next.dirty \/ next.messages = paint.messages
    /\ \A x, c : Copy(next.messages, x, c) =>
         \/ Copy(paint.messages, x, c)
         \/ fresh /\ x = minted + 1 /\ c = 0 /\ next.draft.id # x
    /\ \/ next.draft = NoDraft
       \/ fresh /\ next.draft.id = minted + 1
       \/ /\ next.draft.id = paint.draft.id /\ next.draft.step = paint.draft.step
          /\ next.draft = paint.draft \/ paint.draft.step = "edit"
    /\ \/ MayDiscard
       \/ fresh /\ next.draft.id = minted + 1
       \/ \A x : Has(paint.messages, x) => Has(next.messages, x)

LEMMA DraftSet ==
  ASSUME paint \in FB, NEW d \in Drafts
  PROVE  /\ [paint EXCEPT !.draft = d] \in FB
         /\ [paint EXCEPT !.draft = d].draft = d
         /\ [paint EXCEPT !.draft = d].messages = paint.messages
         /\ [paint EXCEPT !.draft = d].sending = paint.sending
         /\ [paint EXCEPT !.draft = d].refreshing = paint.refreshing
         /\ [paint EXCEPT !.draft = d].dirty = paint.dirty
<1>1. PICK next : next = [paint EXCEPT !.draft = d]
  OBVIOUS
<1>2. /\ next \in FB /\ next.draft = d /\ next.messages = paint.messages
      /\ next.sending = paint.sending /\ next.refreshing = paint.refreshing
      /\ next.dirty = paint.dirty
  BY <1>1 DEF FB
<1> QED BY <1>1, <1>2

LEMMA EditFacts ==
  ASSUME FeedbackInv, Edits
  PROVE  /\ layout
         /\ UNCHANGED <<live, layout, base, stale, raised, sends, polls, queued, disk, unread,
                        lost, stored, answered, posted, stops, restarts>>
         /\ \E fresh \in BOOLEAN :
              /\ minted' = IF fresh THEN minted + 1 ELSE minted
              /\ fresh => minted < MaxIds
              /\ Edited(paint', fresh)
<1>1. /\ RowList(paint.messages) /\ paint.draft \in Drafts /\ paint \in FB
      /\ minted \in Nat /\ (minted < MaxIds => minted + 1 \in Ids)
      /\ \A c : ~Copy(paint.messages, minted + 1, c)
  BY StateFacts DEF FeedbackInv, TypeInv
<1>2. CASE OpenDraft
  <2>1. minted < MaxIds /\ minted' = minted + 1 /\ minted + 1 \in Ids
    BY <1>1, <1>2 DEF OpenDraft
  <2>2. PICK b \in Bytes : Edit([paint EXCEPT !.draft = [id |-> minted + 1, bytes |-> b, step |-> "edit"]])
    BY <1>2, <2>1 DEF OpenDraft
  <2>3. PICK d \in Drafts : d = [id |-> minted + 1, bytes |-> b, step |-> "edit"]
    BY <2>1, DraftBuilt
  <2>4. d.id = minted + 1
    BY <2>3
  <2>5. paint' = [paint EXCEPT !.draft = d]
    BY <2>2, <2>3 DEF Edit
  <2>6. Edited(paint', TRUE)
    BY <1>1, <2>4, <2>5, DraftSet DEF Edited
  <2> QED BY <2>1, <2>2, <2>6 DEF Edit
<1>3. CASE ChangeDraft
  <2>1. PICK b \in Bytes : Edit([paint EXCEPT !.draft.bytes = b])
    BY <1>3 DEF ChangeDraft
  <2>2. PICK d : d = [paint.draft EXCEPT !.bytes = b]
    OBVIOUS
  <2>3. paint.draft.step = "edit" /\ minted' = minted
    BY <1>3 DEF ChangeDraft
  <2>4. d \in Drafts /\ d.id = paint.draft.id /\ d.step = paint.draft.step
    <3>1. paint.draft \in [id : Ids, bytes : Bytes, step : {"edit", "sending", "sent"}]
      BY <1>1, <2>3 DEF Drafts, NoDraft
    <3>2. /\ d \in [id : Ids, bytes : Bytes, step : {"edit", "sending", "sent"}]
          /\ d.id = paint.draft.id /\ d.step = paint.draft.step
      BY <2>2, <3>1
    <3> QED BY <3>2 DEF Drafts
  <2>5. paint' = [paint EXCEPT !.draft = d]
    BY <2>1, <2>2 DEF Edit
  <2>6. Edited(paint', FALSE)
    BY <1>1, <2>3, <2>4, <2>5, DraftSet DEF Edited
  <2> QED BY <2>1, <2>3, <2>6 DEF Edit
<1>4. CASE CloseDraft
  <2>1. Edit([paint EXCEPT !.draft = NoDraft]) /\ minted' = minted
    BY <1>4 DEF CloseDraft
  <2>2. paint' = [paint EXCEPT !.draft = NoDraft]
    BY <2>1 DEF Edit
  <2>3. Edited(paint', FALSE)
    BY <1>1, <2>2, DraftBuilt, DraftSet DEF Edited
  <2> QED BY <2>1, <2>3 DEF Edit
<1>5. CASE Coffee
  <2>1. minted < MaxIds /\ minted' = minted + 1 /\ minted + 1 \in Ids
    BY <1>1, <1>5 DEF Coffee
  <2>2. PICK r \in Row : r = [id |-> minted + 1, status |-> "Local", bytes |-> 0]
    BY <2>1, RowFacts DEF Statuses, Payloads
  <2>3. r.id = minted + 1 /\ r.bytes = 0 /\ r.status = "Local"
    BY <2>2
  <2>4. PICK rows : rows = <<r>> \o paint.messages
    OBVIOUS
  <2>5. /\ RowList(rows)
        /\ \A x, c : Copy(rows, x, c) <=> ((x = minted + 1 /\ c = 0) \/ Copy(paint.messages, x, c))
    <3>1. ~Has(paint.messages, r.id)
      BY <1>1, <2>3, HasCopy
    <3> QED BY <1>1, <2>3, <2>4, <3>1, FrontFacts
  <2>6. PICK d \in {paint.draft, NoDraft} :
          Edit([paint EXCEPT !.messages = <<[id |-> minted + 1, status |-> "Local", bytes |-> 0]>> \o @,
                             !.draft = d, !.dirty = TRUE])
    BY <1>5, <2>1 DEF Coffee
  <2>7. paint' = [paint EXCEPT !.messages = rows, !.draft = d, !.dirty = TRUE]
    BY <2>2, <2>4, <2>6 DEF Edit
  <2>8. d \in Drafts
    BY <1>1, DraftBuilt
  <2>9. PICK next : next = paint'
    OBVIOUS
  <2>10. /\ next \in FB /\ next.draft = d /\ next.messages = rows
         /\ next.sending = paint.sending /\ next.refreshing = paint.refreshing /\ next.dirty
    BY <1>1, <2>5, <2>7, <2>8, <2>9, RowListsFacts DEF FB
  <2>11. d.id # minted + 1
    <3>1. paint.draft.id <= minted /\ NoDraft.id <= minted
      BY <1>1, DraftFacts DEF FeedbackInv, RowsInv, MintedInv, PayloadInv, DraftInv
    <3> QED BY <1>1, <3>1, DraftFacts
  <2>12. \A x : Has(paint.messages, x) => Has(rows, x)
    BY <1>1, <2>5, HasCopy
  <2>13. Edited(next, TRUE)
    BY <2>5, <2>10, <2>11, <2>12 DEF Edited
  <2> QED BY <2>1, <2>6, <2>9, <2>13 DEF Edit
<1>6. ASSUME NEW id \in Ids, Discard(id)
      PROVE  Edits /\ MayDiscard /\ minted' = minted /\ Edited(paint', FALSE)
             /\ Edit(paint')
  <2>1. paint' = [paint EXCEPT !.messages = Without(@, id), !.dirty = TRUE]
    BY <1>6 DEF Discard, Edit
  <2>2. PICK rows : rows = Without(paint.messages, id)
    OBVIOUS
  <2>3. RowList(rows) /\ \A x, c : Copy(rows, x, c) => Copy(paint.messages, x, c)
    BY <1>1, <2>2, WithoutFacts
  <2>4. paint' = [paint EXCEPT !.messages = rows, !.draft = paint.draft, !.dirty = TRUE]
    BY <1>1, <2>1, <2>2 DEF FB
  <2>5. PICK next : next = paint'
    OBVIOUS
  <2>6. /\ next \in FB /\ next.draft = paint.draft /\ next.messages = rows
        /\ next.sending = paint.sending /\ next.refreshing = paint.refreshing /\ next.dirty
    BY <1>1, <2>3, <2>4, <2>5, RowListsFacts DEF FB
  <2>7. MayDiscard /\ minted' = minted /\ Edit(paint')
    BY <1>6 DEF Discard, Edit
  <2>8. Edited(next, FALSE)
    BY <2>3, <2>6, <2>7 DEF Edited
  <2> QED BY <2>5, <2>7, <2>8
<1>7. ASSUME NEW id \in Ids, EditAndResend(id)
      PROVE  minted' = minted + 1 /\ minted < MaxIds /\ Edited(paint', TRUE) /\ Edit(paint')
  <2>1. minted' = minted + 1 /\ minted < MaxIds /\ minted + 1 \in Ids
    BY <1>1, <1>7 DEF EditAndResend
  <2>2. PICK b \in Bytes : b = RowOf(paint.messages, id).bytes
    <3>1. Has(paint.messages, id) /\ RowOf(paint.messages, id).status = "Failed"
      BY <1>7 DEF EditAndResend
    <3>2. RowOf(paint.messages, id) \in Row /\ RowOf(paint.messages, id).bytes # 0
      BY <1>1, <3>1, RowOfFacts
    <3> QED BY <3>2, RowFacts DEF Payloads
  <2>3. PICK d \in Drafts : d = [id |-> minted + 1, bytes |-> b, step |-> "edit"]
    BY <2>1, DraftBuilt
  <2>4. d.id = minted + 1
    BY <2>3
  <2>5. PICK rows : rows = Without(paint.messages, id)
    OBVIOUS
  <2>6. RowList(rows) /\ \A x, c : Copy(rows, x, c) => Copy(paint.messages, x, c)
    BY <1>1, <2>5, WithoutFacts
  <2>7. paint' = [paint EXCEPT !.messages = rows, !.draft = d, !.dirty = TRUE]
    BY <1>7, <2>1, <2>2, <2>3, <2>5 DEF EditAndResend, Edit
  <2>8. PICK next : next = paint'
    OBVIOUS
  <2>9. /\ next \in FB /\ next.draft = d /\ next.messages = rows
        /\ next.sending = paint.sending /\ next.refreshing = paint.refreshing /\ next.dirty
    BY <1>1, <2>6, <2>7, <2>8, RowListsFacts DEF FB
  <2>10. Edit(paint')
    BY <1>7 DEF EditAndResend, Edit
  <2>11. Edited(next, TRUE)
    BY <2>4, <2>6, <2>9 DEF Edited
  <2> QED BY <2>1, <2>8, <2>10, <2>11
<1>8. CASE \E id \in Ids : EditsOf(id)
  BY <1>6, <1>7, <1>8 DEF EditsOf, Edit
<1> QED BY <1>2, <1>3, <1>4, <1>5, <1>8 DEF Edits

(* A report that may go out: staged from the frame's rows, under an id no  *)
(* row has given up.                                                       *)
Staged(fb, id, b, fresh) ==
    /\ fb \in FB
    /\ fb.sending = id /\ fb.refreshing = paint.refreshing /\ fb.dirty
    /\ RowOf(fb.messages, id).bytes = b /\ Copy(fb.messages, id, b) /\ Has(fb.messages, id)
    /\ ~Copy(live.messages, id, 0)
    /\ \A x, c : Copy(fb.messages, x, c) => (x = id /\ c = b) \/ (x # id /\ Copy(paint.messages, x, c))
    /\ \A x : Has(paint.messages, x) =>
         Has(fb.messages, x) \/ (x = paint.draft.id /\ fb.draft.id = minted + 1)
    /\ \/ fb.draft = paint.draft /\ paint.draft.id # id
       \/ fb.draft.id = id /\ fb.draft.step = "sending" /\ (fresh \/ paint.draft.id = id)
    /\ \/ fresh /\ id = minted + 1 /\ fb.draft.id = id
       \/ ~fresh /\ Copy(paint.messages, id, b)
       \/ ~fresh /\ id = paint.draft.id /\ paint.draft.step = "edit" /\ ~Has(paint.messages, id)

LEMMA StageFacts ==
  ASSUME FeedbackInv, Send \/ \E x \in Ids : Resend(x)
  PROVE  /\ layout /\ paint.sending = 0
         /\ UNCHANGED <<layout, base, stale, polls, queued, disk, unread, lost, stored, answered,
                        posted, stops, restarts>>
         /\ \E id \in Ids, b \in Bytes, fresh \in BOOLEAN, fb \in FB :
              /\ minted' = IF fresh THEN minted + 1 ELSE minted
              /\ id <= minted' /\ minted' <= MaxIds
              /\ Staged(fb, id, b, fresh)
              /\ Post(fb)
<1>1. /\ RowList(paint.messages) /\ RowList(live.messages)
      /\ paint.draft \in Drafts /\ live.draft \in Drafts /\ paint \in FB
      /\ minted \in Nat /\ minted <= MaxIds
      /\ \A x, c : Copy(live.messages, x, c) \/ Copy(paint.messages, x, c) => x <= minted
      /\ paint.draft.id <= minted
  BY StateFacts DEF FeedbackInv, TypeInv, RowsInv, MintedInv, PayloadInv, DraftInv
<1>2. ASSUME Send
      PROVE  /\ layout /\ paint.sending = 0
             /\ UNCHANGED <<layout, base, stale, polls, queued, disk, unread, lost, stored,
                            answered, posted, stops, restarts>>
             /\ \E id \in Ids, b \in Bytes, fresh \in BOOLEAN, fb \in FB :
                  /\ minted' = IF fresh THEN minted + 1 ELSE minted
                  /\ id <= minted' /\ minted' <= MaxIds
                  /\ Staged(fb, id, b, fresh)
                  /\ Post(fb)
  <2>1. /\ layout /\ paint.sending = 0 /\ paint.draft.step = "edit"
        /\ SendId(paint) <= MaxIds
        /\ minted' = IF SendId(paint) > minted THEN SendId(paint) ELSE minted
        /\ Post(StageSend(paint))
        /\ UNCHANGED <<layout, base, stale, polls, queued, disk, unread, lost, stored, answered,
                       posted, stops, restarts>>
    BY <1>2 DEF Send, MaySend
  <2>2. PICK id, b : id = SendId(paint) /\ b = paint.draft.bytes
    OBVIOUS
  <2>3. paint.draft.id \in Ids /\ b \in Bytes
    BY <1>1, <2>1, <2>2, DraftFacts
  <2>4. id = paint.draft.id \/ id = minted + 1
    BY <2>2 DEF SendId
  <2>5. id \in Ids
    <3>1. minted + 1 <= MaxIds => minted + 1 \in Ids
      BY <1>1, IdsAssumption DEF Ids
    <3> QED BY <2>1, <2>2, <2>3, <2>4, <3>1
  <2>6. ~Copy(paint.messages, paint.draft.id, 0) /\ ~Copy(live.messages, paint.draft.id, 0)
    BY <2>1 DEF FeedbackInv, RowsInv, MintedInv, PayloadInv, DraftInv
  <2>7. PICK fb : fb = StageSend(paint)
    OBVIOUS
  <2>8. /\ fb \in FB /\ fb.sending = id /\ fb.refreshing = paint.refreshing /\ fb.dirty
        /\ fb.draft.id = id /\ fb.draft.bytes = b /\ fb.draft.step = "sending"
        /\ RowOf(fb.messages, id).bytes = b /\ Has(fb.messages, id)
    BY <1>1, <2>1, <2>2, <2>5, <2>6, <2>7, StageSendFacts
  <2>9. \A x, c : Copy(fb.messages, x, c) <=>
              \/ x = id /\ c = b
              \/ x # id /\ x # paint.draft.id /\ Copy(paint.messages, x, c)
    BY <1>1, <2>1, <2>2, <2>5, <2>6, <2>7, StageSendFacts
  <2>10. \/ id = minted + 1
         \/ id = paint.draft.id /\ (Has(paint.messages, id) => Copy(paint.messages, id, b))
    BY <1>1, <2>1, <2>2, <2>5, <2>6, <2>7, StageSendFacts
  <2>11. \A x : Has(paint.messages, x) =>
           Has(fb.messages, x) \/ (x = paint.draft.id /\ id = minted + 1)
    <3> SUFFICES ASSUME NEW x, Has(paint.messages, x), x # paint.draft.id, x # id
                 PROVE  Has(fb.messages, x)
      BY <2>4, <2>8
    <3>1. PICK c \in Payloads : Copy(paint.messages, x, c)
      BY <1>1, HasCopy
    <3>2. RowList(fb.messages) /\ Copy(fb.messages, x, c)
      BY <2>8, <2>9, <3>1, FBFacts
    <3> QED BY <3>2, HasCopy
  <2>12. PICK fresh \in BOOLEAN : fresh <=> id = minted + 1
    OBVIOUS
  <2>13. ~Copy(live.messages, id, 0)
    BY <1>1, <2>4, <2>6
  <2>14. Staged(fb, id, b, fresh)
    <3>1. \A x, c : Copy(fb.messages, x, c) =>
             (x = id /\ c = b) \/ (x # id /\ Copy(paint.messages, x, c))
      BY <2>9
    <3>2. Copy(fb.messages, id, b)
      BY <2>9
    <3>3. \/ fresh /\ id = minted + 1 /\ fb.draft.id = id
          \/ ~fresh /\ Copy(paint.messages, id, b)
          \/ ~fresh /\ id = paint.draft.id /\ paint.draft.step = "edit" /\ ~Has(paint.messages, id)
      BY <2>1, <2>8, <2>10, <2>12
    <3>4. fresh \/ paint.draft.id = id
      BY <2>4, <2>12
    <3> QED BY <2>8, <2>11, <2>13, <3>1, <3>2, <3>3, <3>4 DEF Staged
  <2>15. minted' = IF fresh THEN minted + 1 ELSE minted
    <3>1. id \in Nat /\ minted' = IF id > minted THEN id ELSE minted
      BY <2>1, <2>2, <2>5, IdFacts
    <3>2. CASE id = minted + 1
      BY <1>1, <2>12, <3>1, <3>2
    <3>3. CASE id # minted + 1
      BY <1>1, <2>4, <2>12, <3>1, <3>3
    <3> QED BY <3>2, <3>3
  <2>16. id <= minted' /\ minted' <= MaxIds
    BY <1>1, <2>1, <2>2, <2>4, <2>12, <2>15
  <2> QED BY <2>1, <2>3, <2>5, <2>7, <2>8, <2>14, <2>15, <2>16
<1>3. ASSUME NEW id \in Ids, Resend(id)
      PROVE  /\ layout /\ paint.sending = 0
             /\ UNCHANGED <<layout, base, stale, polls, queued, disk, unread, lost, stored,
                            answered, posted, stops, restarts>>
             /\ \E b \in Bytes, fresh \in BOOLEAN, fb \in FB :
                  /\ minted' = IF fresh THEN minted + 1 ELSE minted
                  /\ id <= minted' /\ minted' <= MaxIds
                  /\ Staged(fb, id, b, fresh)
                  /\ Post(fb)
  <2>1. /\ layout /\ paint.sending = 0
        /\ Has(paint.messages, id) /\ RowOf(paint.messages, id).bytes # 0
        /\ minted' = minted
        /\ Post(Resent(paint, id))
        /\ UNCHANGED <<layout, base, stale, polls, queued, disk, unread, lost, stored, answered,
                       posted, stops, restarts>>
    BY <1>3 DEF Resend, MaySend
  <2>2. PICK b : b = RowOf(paint.messages, id).bytes
    OBVIOUS
  <2>3. Copy(paint.messages, id, b) /\ b \in Bytes
    <3>1. RowOf(paint.messages, id) \in Row /\ Copy(paint.messages, id, b)
      BY <1>1, <2>1, <2>2, RowOfFacts
    <3> QED BY <2>1, <2>2, <3>1, RowFacts DEF Payloads
  <2>4. PICK fb : fb = Resent(paint, id)
    OBVIOUS
  <2>5. /\ fb \in FB /\ fb.sending = id /\ fb.refreshing = paint.refreshing /\ fb.dirty
        /\ IF paint.draft.id = id THEN fb.draft.step = "sending" ELSE fb.draft = paint.draft
        /\ fb.draft.id = paint.draft.id
        /\ \A x, c : Copy(fb.messages, x, c) <=> Copy(paint.messages, x, c)
        /\ RowOf(fb.messages, id).bytes = b /\ Has(fb.messages, id)
    BY <1>1, <2>1, <2>2, <2>4, ResentFacts
  <2>6. id <= minted
    BY <1>1, <2>3
  <2>7. ~Copy(live.messages, id, 0)
    <3>1. ~Copy(paint.messages, id, 0)
      BY <1>1, <2>3, CopyOne, RowFacts
    <3> QED BY <2>1, <3>1 DEF FeedbackInv, RowsInv, MintedInv, PayloadInv, DraftInv
  <2>8. \A x : Has(paint.messages, x) => Has(fb.messages, x)
    <3>1. RowList(fb.messages)
      BY <2>5, FBFacts
    <3> QED BY <1>1, <2>5, <3>1, HasCopy
  <2>9. \A x, c : Copy(fb.messages, x, c) =>
           (x = id /\ c = b) \/ (x # id /\ Copy(paint.messages, x, c))
    BY <1>1, <2>3, <2>5, CopyOne
  <2>10. Staged(fb, id, b, FALSE)
    BY <2>3, <2>5, <2>7, <2>8, <2>9 DEF Staged
  <2> QED BY <1>1, <2>1, <2>3, <2>4, <2>5, <2>6, <2>10
<1> QED BY <1>2, <1>3

(* The lock goes up in live at once, with the worker.                      *)
LEMMA PostFacts ==
  ASSUME FeedbackInv, layout, paint.sending = 0, NEW id \in Ids, NEW b \in Bytes, NEW fresh,
         NEW fb \in FB, Staged(fb, id, b, fresh), Post(fb)
  PROVE  \/ /\ paint' = fb
            /\ live' \in FB /\ live'.messages = live.messages /\ live'.draft = live.draft
            /\ live'.sending = id /\ live'.refreshing = live.refreshing /\ live'.dirty = live.dirty
            /\ raised' = raised \cup {"send"} /\ "send" \notin raised
            /\ \E w \in SendJobs :
                 /\ w.id = id /\ w.bytes = b /\ ~w.stopped /\ w.phase = "post"
                 /\ sends' = {w}
         \/ /\ paint' \in FB /\ paint'.sending = 0 /\ paint'.refreshing = paint.refreshing
            /\ paint'.dirty
            /\ \A x, c : Copy(paint'.messages, x, c) <=> Copy(fb.messages, x, c)
            /\ \A x : Has(paint'.messages, x) <=> Has(fb.messages, x)
            /\ paint'.draft.id = fb.draft.id
            /\ IF fb.draft.id = id THEN paint'.draft.step = "edit" ELSE paint'.draft = fb.draft
            /\ UNCHANGED <<live, raised, sends>>
<1>1. /\ live \in FB /\ fb.sending = id /\ fb.refreshing = paint.refreshing /\ id # 0
      /\ RowOf(fb.messages, id).bytes = b /\ Has(fb.messages, id) /\ Copy(fb.messages, id, b)
      /\ RowList(fb.messages)
  BY IdFacts, FBFacts DEF FeedbackInv, TypeInv, Staged
<1>2. base.sending = 0 /\ live.sending = 0 /\ "send" \notin raised /\ sends = {}
  <2>1. base.sending = 0 /\ live.sending = 0 /\ "send" \notin raised
    BY DEF FeedbackInv, SendInv
  <2>2. \A w \in sends : w.id \in Ids /\ w.id = 0
    BY <2>1, StateFacts DEF FeedbackInv, SendInv
  <2> QED BY <2>1, <2>2, IdFacts
<1>3. ~(fb.refreshing /\ ~base.refreshing /\ "poll" \notin raised)
  BY <1>1 DEF FeedbackInv, PollInv
<1>4. ASSUME paint' = fb, PublishRaised(fb),
             sends' = sends \cup {[id |-> fb.sending, stopped |-> FALSE, phase |-> "post",
                                   bytes |-> RowOf(fb.messages, fb.sending).bytes,
                                   result |-> "Sending"]}
      PROVE  /\ live' \in FB /\ live'.messages = live.messages /\ live'.draft = live.draft
             /\ live'.sending = id /\ live'.refreshing = live.refreshing /\ live'.dirty = live.dirty
             /\ raised' = raised \cup {"send"}
             /\ \E w \in SendJobs :
                  /\ w.id = id /\ w.bytes = b /\ ~w.stopped /\ w.phase = "post"
                  /\ sends' = {w}
  <2>1. PICK next : next = [live EXCEPT !.sending = id, !.refreshing = live.refreshing \/ FALSE]
    OBVIOUS
  <2>2. /\ next \in FB /\ next.messages = live.messages /\ next.draft = live.draft
        /\ next.sending = id /\ next.refreshing = live.refreshing /\ next.dirty = live.dirty
    BY <1>1, <2>1 DEF FB
  <2>3. live' = next /\ raised' = raised \cup {"send"}
    BY <1>1, <1>2, <1>3, <1>4, <2>1 DEF PublishRaised
  <2>4. PICK w : w = [id |-> id, stopped |-> FALSE, phase |-> "post", bytes |-> b,
                      result |-> "Sending"]
    OBVIOUS
  <2>5. w \in SendJobs /\ w.id = id /\ w.bytes = b /\ ~w.stopped /\ w.phase = "post"
    BY <2>4 DEF SendJobs
  <2>6. sends' = {w}
    BY <1>1, <1>2, <1>4, <2>4
  <2> QED BY <2>2, <2>3, <2>5, <2>6
<1>5. ASSUME paint' = ApplySendResult(fb, fb.sending, "Failed"), UNCHANGED <<live, raised, sends>>
      PROVE  /\ paint' \in FB /\ paint'.sending = 0 /\ paint'.refreshing = paint.refreshing
             /\ paint'.dirty
             /\ \A x, c : Copy(paint'.messages, x, c) <=> Copy(fb.messages, x, c)
             /\ \A x : Has(paint'.messages, x) <=> Has(fb.messages, x)
             /\ paint'.draft.id = fb.draft.id
             /\ IF fb.draft.id = id THEN paint'.draft.step = "edit" ELSE paint'.draft = fb.draft
  <2>1. ~Copy(fb.messages, id, 0) /\ "Failed" \in Outcomes
    BY <1>1, CopyOne, RowFacts DEF Outcomes
  <2>2. paint' = ApplySendResult(fb, id, "Failed")
    BY <1>1, <1>5
  <2>3. fb.dirty /\ fb.draft \in Drafts
    BY FBFacts DEF Staged
  <2> QED BY <1>1, <2>1, <2>2, <2>3, ApplySendFacts
<1> QED BY <1>2, <1>4, <1>5 DEF Post

(* The outcome of a send, or the word of a panic.                          *)
LEMMA LandFacts ==
  ASSUME FeedbackInv, NEW w \in sends, ApplySend(w) \/ SendPanics(w)
  PROVE  /\ w.id \in Ids /\ w.id <= minted /\ live.sending = w.id
         /\ ~Copy(live.messages, w.id, 0) /\ ~Copy(paint.messages, w.id, 0)
         /\ layout => paint.sending # 0
         /\ sends' = {} /\ stale' = layout
         /\ UNCHANGED <<layout, base, paint, raised, minted, polls, queued, disk, unread, lost,
                        stored, answered, posted, stops, restarts>>
         /\ \E status \in Outcomes : live' = ApplySendResult(live, w.id, status)
<1>1. w \in SendJobs /\ w.id \in Ids /\ live.sending = w.id /\ (\A v \in sends : v = w)
      /\ w.id # 0
  BY IdFacts, StateFacts DEF FeedbackInv, SendInv, TypeInv
<1>2. layout => paint.sending # 0
  BY <1>1 DEF FeedbackInv, SendInv
<1>3. w.id <= minted /\ ~Copy(live.messages, w.id, 0) /\ ~Copy(paint.messages, w.id, 0)
  BY DEF FeedbackInv, RowsInv, MintedInv, PayloadInv, DraftInv
<1>4. sends \ {w} = {}
  BY <1>1
<1>5. CASE ApplySend(w)
  BY <1>1, <1>2, <1>3, <1>4, <1>5 DEF ApplySend, FeedbackInv, TypeInv
<1>6. CASE SendPanics(w)
  BY <1>1, <1>2, <1>3, <1>4, <1>6 DEF SendPanics, Outcomes
<1> QED BY <1>5, <1>6

(* What a refresh says, or that it failed.                                 *)
LEMMA PollLandFacts ==
  ASSUME FeedbackInv, NEW w \in polls, ApplyRefresh(w) \/ RefreshFails(w)
  PROVE  /\ live' \in FB /\ live'.draft = live.draft /\ live'.sending = live.sending
         /\ ~live'.refreshing
         /\ live.dirty => live'.dirty
         /\ live'.dirty \/ live'.messages = live.messages
         /\ \A x, c : Copy(live'.messages, x, c) <=> Copy(live.messages, x, c)
         /\ \A x : Has(live'.messages, x) <=> Has(live.messages, x)
         /\ live.refreshing
         /\ polls' = {} /\ stale' = layout
         /\ UNCHANGED <<layout, base, paint, raised, minted, sends, queued, disk, unread, lost,
                        stored, answered, posted, stops, restarts>>
<1>1. /\ w \in PollJobs /\ (\A v \in polls : v = w) /\ live.refreshing /\ live \in FB
      /\ RowList(live.messages)
  BY StateFacts DEF FeedbackInv, PollInv, TypeInv
<1>2. polls \ {w} = {}
  BY <1>1
<1>3. CASE ApplyRefresh(w)
  <2>1. \A id \in DOMAIN w.rows : w.rows[id] \in Words
    <3>1. w.rows \in Answers
      BY <1>1 DEF PollJobs
    <3>2. CASE w.rows = <<>>
      BY <3>2
    <3>3. ASSUME NEW S \in SUBSET Ids, w.rows \in [S -> Words]
          PROVE  \A id \in DOMAIN w.rows : w.rows[id] \in Words
      BY <3>3
    <3> QED BY <3>1, <3>2, <3>3 DEF Answers
  <2>2. live' = ApplyStatusRows(live, w.rows)
    BY <1>3 DEF ApplyRefresh
  <2>3. /\ live' \in FB /\ live'.draft = live.draft /\ live'.sending = live.sending
        /\ ~live'.refreshing /\ live'.dirty
        /\ \A x, c : Copy(live'.messages, x, c) <=> Copy(live.messages, x, c)
    BY <1>1, <2>1, <2>2, ApplyStatusFacts
  <2>4. \A x : Has(live'.messages, x) <=> Has(live.messages, x)
    <3>1. RowList(live'.messages)
      BY <2>3, FBFacts
    <3> QED BY <1>1, <2>3, <3>1, HasCopy
  <2> QED BY <1>1, <1>2, <1>3, <2>3, <2>4 DEF ApplyRefresh
<1>4. CASE RefreshFails(w)
  <2>1. PICK next : next = [live EXCEPT !.refreshing = FALSE]
    OBVIOUS
  <2>2. /\ next \in FB /\ next.messages = live.messages /\ next.draft = live.draft
        /\ next.sending = live.sending /\ ~next.refreshing /\ next.dirty = live.dirty
    BY <1>1, <2>1 DEF FB
  <2>3. live' = next
    BY <1>4, <2>1 DEF RefreshFails
  <2> QED BY <1>1, <1>2, <1>4, <2>2, <2>3 DEF RefreshFails
<1> QED BY <1>3, <1>4

LEMMA RefreshFacts ==
  ASSUME FeedbackInv, RefreshStatus
  PROVE  /\ layout /\ ~paint.refreshing
         /\ paint' \in FB /\ paint'.messages = paint.messages /\ paint'.draft = paint.draft
         /\ paint'.sending = paint.sending /\ paint'.refreshing /\ paint'.dirty = paint.dirty
         /\ live' \in FB /\ live'.messages = live.messages /\ live'.draft = live.draft
         /\ live'.sending = live.sending /\ live'.refreshing /\ live'.dirty = live.dirty
         /\ raised' = raised \cup {"poll"}
         /\ \E w \in PollJobs : polls' = {w}
         /\ UNCHANGED <<layout, base, stale, minted, sends, queued, disk, unread, lost, stored,
                        answered, posted, stops, restarts>>
<1>1. /\ layout /\ ~paint.refreshing /\ paint \in FB /\ live \in FB
      /\ RowList(paint.messages) /\ paint' = [paint EXCEPT !.refreshing = TRUE]
      /\ PublishRaised(paint')
  BY StateFacts DEF RefreshStatus, FeedbackInv, TypeInv
<1>2. PICK p : p = paint'
  OBVIOUS
<1>3. /\ p \in FB /\ p.messages = paint.messages /\ p.draft = paint.draft
      /\ p.sending = paint.sending /\ p.refreshing /\ p.dirty = paint.dirty
  BY <1>1, <1>2 DEF FB
<1>4. ~base.refreshing /\ ~live.refreshing /\ "poll" \notin raised /\ polls = {}
  BY <1>1 DEF FeedbackInv, PollInv
<1>5. ~(p.sending # 0 /\ p.sending # base.sending /\ "send" \notin raised)
  BY <1>1, <1>3 DEF FeedbackInv, SendInv
<1>6. PICK next : next = [live EXCEPT !.sending = live.sending, !.refreshing = TRUE]
  OBVIOUS
<1>7. /\ next \in FB /\ next.messages = live.messages /\ next.draft = live.draft
      /\ next.sending = live.sending /\ next.refreshing /\ next.dirty = live.dirty
  BY <1>1, <1>6 DEF FB
<1>8. live' = next /\ raised' = raised \cup {"poll"}
  <2>1. PublishRaised(p)
    BY <1>1, <1>2
  <2> QED BY <1>1, <1>3, <1>4, <1>5, <1>6, <2>1 DEF PublishRaised, FB
<1>9. \E w \in PollJobs : polls' = {w}
  <2>1. PICK w : w = [ids |-> Pollable(paint.messages), stopped |-> FALSE, phase |-> "fetch",
                      rows |-> <<>>]
    OBVIOUS
  <2>2. Pollable(paint.messages) \in SUBSET Ids
    BY <1>1, SeqFacts DEF Pollable, RowList
  <2>3. w \in PollJobs
    BY <2>1, <2>2 DEF PollJobs, Answers
  <2>4. polls' = {w}
    BY <1>4, <2>1 DEF RefreshStatus
  <2> QED BY <2>3, <2>4
<1> QED BY <1>1, <1>2, <1>3, <1>7, <1>8, <1>9 DEF RefreshStatus

(* The steps that touch neither live nor a frame's copy.                   *)
SendWork(w) == Deliver(w) \/ Classify(w) \/ DropSend(w)

Aside ==
    \/ OtherPublish \/ Stop \/ SaveLands \/ SaveFails
    \/ \E id \in Ids : Answer(id)
    \/ \E w \in sends : SendWork(w)
    \/ \E w \in polls : FetchStatus(w)

SendLands(w) == ApplySend(w) \/ SendPanics(w)

PollLands(w) == ApplyRefresh(w) \/ RefreshFails(w)

LEMMA NextCases ==
  ASSUME [Next]_vars
  PROVE  \/ Capture \/ Commit \/ Edits
         \/ (Send \/ \E x \in Ids : Resend(x))
         \/ RefreshStatus \/ Aside
         \/ \E w \in sends : SendLands(w)
         \/ \E w \in polls : PollLands(w)
         \/ Restart
         \/ UNCHANGED vars
BY DEF Next, Player, SendStep, PollStep, Edits, EditsOf, Aside, SendWork, SendLands, PollLands

(* The send workers carry on with the same reports, or end.                *)
SendsGoOn(next) ==
    /\ next \subseteq SendJobs
    /\ \A v \in next : v.phase = "done" => v.result \in Outcomes
    /\ \A v \in next : \E w \in sends : v.id = w.id /\ v.bytes = w.bytes
    /\ \A v, w \in next : v = w

PollsGoOn(next) ==
    /\ next \subseteq PollJobs
    /\ \A v, w \in next : v = w
    /\ next # {} => polls # {}

LEMMA ServerWordFacts ==
  ASSUME NEW id
  PROVE  ServerWord(id) \in Words
BY DEF ServerWord, Words

LEMMA AsideFacts ==
  ASSUME FeedbackInv, Aside
  PROVE  /\ UNCHANGED <<live, layout, base, paint, raised, minted, restarts>>
         /\ stale' \in BOOLEAN /\ (stale => stale') /\ (~layout => ~stale')
         /\ SendsGoOn(sends') /\ PollsGoOn(polls')
         /\ queued' \in [some : BOOLEAN, rows : RowLists] /\ disk' \in RowLists
         /\ \A x, b : Copy(queued'.rows, x, b) \/ Copy(disk', x, b) =>
                        Copy(queued.rows, x, b) \/ Copy(disk, x, b)
         /\ unread' = unread /\ lost' \in BOOLEAN /\ (queued'.some => queued.some)
         /\ lost' \/ (SavedRows' = SavedRows /\ lost' = lost)
         /\ stored' \in [Ids -> Payloads] /\ answered' \subseteq Ids
         /\ posted' \subseteq posted \cup {<<w.id, w.bytes>> : w \in sends}
<1>1. /\ stale \in BOOLEAN /\ (~layout => ~stale)
      /\ sends \subseteq SendJobs /\ polls \subseteq PollJobs
      /\ \A v, w \in sends : v = w
      /\ \A v, w \in polls : v = w
      /\ \A w \in sends : w.phase = "done" => w.result \in Outcomes
      /\ queued \in [some : BOOLEAN, rows : RowLists] /\ disk \in RowLists
      /\ lost \in BOOLEAN
      /\ stored \in [Ids -> Payloads] /\ answered \subseteq Ids
  BY DEF FeedbackInv, TypeInv, SendInv, PollInv
<1>2. SendsGoOn(sends) /\ PollsGoOn(polls)
  BY <1>1 DEF SendsGoOn, PollsGoOn
<1>3. CASE OtherPublish
  BY <1>1, <1>2, <1>3 DEF OtherPublish, SavedRows
<1>4. CASE Stop
  <2>1. SendsGoOn(sends')
    <3>1. ASSUME NEW w \in sends
          PROVE  /\ [w EXCEPT !.stopped = TRUE] \in SendJobs
                 /\ [w EXCEPT !.stopped = TRUE].id = w.id
                 /\ [w EXCEPT !.stopped = TRUE].bytes = w.bytes
                 /\ [w EXCEPT !.stopped = TRUE].phase = w.phase
                 /\ [w EXCEPT !.stopped = TRUE].result = w.result
      <4>1. PICK v : v = [w EXCEPT !.stopped = TRUE]
        OBVIOUS
      <4>2. /\ v \in SendJobs /\ v.id = w.id /\ v.bytes = w.bytes /\ v.phase = w.phase
            /\ v.result = w.result
        BY <1>1, <4>1 DEF SendJobs
      <4> QED BY <4>1, <4>2
    <3>2. sends' = {[w EXCEPT !.stopped = TRUE] : w \in sends}
      BY <1>4 DEF Stop
    <3>3. ASSUME NEW v \in sends'
          PROVE  \E w \in sends : /\ v = [w EXCEPT !.stopped = TRUE] /\ v \in SendJobs
                                  /\ v.id = w.id /\ v.bytes = w.bytes
                                  /\ v.phase = w.phase /\ v.result = w.result
      BY <3>1, <3>2
    <3>4. \A u, v \in sends' : u = v
      BY <1>1, <3>2
    <3>5. \A v \in sends' : v \in SendJobs /\ (v.phase = "done" => v.result \in Outcomes)
      BY <1>1, <3>3
    <3>6. \A v \in sends' : \E w \in sends : v.id = w.id /\ v.bytes = w.bytes
      BY <3>3
    <3> QED BY <3>4, <3>5, <3>6 DEF SendsGoOn
  <2>2. PollsGoOn(polls')
    <3>1. ASSUME NEW w \in polls PROVE [w EXCEPT !.stopped = TRUE] \in PollJobs
      BY <1>1 DEF PollJobs
    <3>2. polls' = {[w EXCEPT !.stopped = TRUE] : w \in polls}
      BY <1>4 DEF Stop
    <3> QED BY <1>1, <3>1, <3>2 DEF PollsGoOn
  <2> QED BY <1>1, <1>4, <2>1, <2>2 DEF Stop, SavedRows
<1>5. CASE SaveLands
  <2>1. Nothing \in [some : BOOLEAN, rows : RowLists] /\ ~Nothing.some /\ Nothing.rows = <<>>
    BY NoRowList, RowListsFacts DEF Nothing
  <2>2. queued.some /\ disk' = queued.rows /\ queued' = Nothing
    BY <1>5 DEF SaveLands
  <2>3. \A x, b : ~Copy(queued'.rows, x, b)
    BY <2>1, <2>2, NoRowList
  <2>4. SavedRows' = SavedRows
    BY <2>1, <2>2 DEF SavedRows
  <2>5. disk' \in RowLists
    BY <1>1, <2>2
  <2> QED BY <1>1, <1>2, <1>5, <2>1, <2>2, <2>3, <2>4, <2>5 DEF SaveLands
<1>14. CASE SaveFails
  <2>1. Nothing \in [some : BOOLEAN, rows : RowLists] /\ ~Nothing.some /\ Nothing.rows = <<>>
    BY NoRowList, RowListsFacts DEF Nothing
  <2>2. queued' = Nothing /\ disk' = disk /\ lost' = TRUE
    BY <1>14 DEF SaveFails
  <2>3. \A x, b : ~Copy(queued'.rows, x, b)
    BY <2>1, <2>2, NoRowList
  <2> QED BY <1>1, <1>2, <1>14, <2>1, <2>2, <2>3 DEF SaveFails
<1>6. CASE \E id \in Ids : Answer(id)
  <2>1. PICK id \in Ids : Answer(id)
    BY <1>6
  <2> QED BY <1>1, <1>2, <2>1 DEF Answer, SavedRows
<1>7. ASSUME NEW w \in sends, Deliver(w)
      PROVE  /\ SendsGoOn(sends')
             /\ stored' \in [Ids -> Payloads]
             /\ posted' = posted \cup {<<w.id, w.bytes>>}
             /\ UNCHANGED <<live, layout, base, paint, raised, minted, restarts, stale, polls,
                            queued, disk, unread, lost, answered>>
  <2>1. PICK v : v = [w EXCEPT !.phase = "answer"]
    OBVIOUS
  <2>2. v \in SendJobs /\ v.id = w.id /\ v.bytes = w.bytes /\ v.phase = "answer"
    BY <1>1, <2>1 DEF SendJobs
  <2>3. sends' = {v}
    BY <1>1, <1>7, <2>1 DEF Deliver
  <2>4. SendsGoOn({v})
    BY <2>2 DEF SendsGoOn
  <2>5. stored' \in [Ids -> Payloads]
    <3>1. w.id \in Ids /\ w.bytes \in Payloads
      BY <1>1 DEF SendJobs, Payloads
    <3> QED BY <1>1, <1>7, <3>1 DEF Deliver
  <2> QED BY <1>7, <2>3, <2>4, <2>5 DEF Deliver
<1>8. ASSUME NEW w \in sends, Classify(w)
      PROVE  /\ SendsGoOn(sends')
             /\ UNCHANGED <<live, layout, base, paint, raised, minted, restarts, stale, polls,
                            queued, disk, unread, lost, answered, stored, posted>>
  <2>1. PICK r \in Outcomes : sends' = (sends \ {w}) \cup {[w EXCEPT !.phase = "done", !.result = r]}
    <3>1. {"Failed"} \cup (IF w.phase = "answer" THEN {ServerWord(w.id)} ELSE {}) \subseteq Outcomes
      BY ServerWordFacts DEF Words, Outcomes
    <3> QED BY <1>8, <3>1 DEF Classify
  <2>2. PICK v : v = [w EXCEPT !.phase = "done", !.result = r]
    OBVIOUS
  <2>3. v \in SendJobs /\ v.id = w.id /\ v.bytes = w.bytes /\ v.result = r
    BY <1>1, <2>2 DEF SendJobs
  <2>4. sends' = {v}
    BY <1>1, <2>1, <2>2
  <2>5. SendsGoOn({v})
    BY <2>3 DEF SendsGoOn
  <2> QED BY <1>8, <2>4, <2>5 DEF Classify
<1>9. ASSUME NEW w \in sends, DropSend(w)
      PROVE  /\ SendsGoOn(sends')
             /\ UNCHANGED <<live, layout, base, paint, raised, minted, restarts, stale, polls,
                            queued, disk, unread, lost, answered, stored, posted>>
  <2>1. sends' = {}
    BY <1>1, <1>9 DEF DropSend
  <2> QED BY <1>9, <2>1 DEF DropSend, SendsGoOn
<1>10. ASSUME NEW w \in polls, FetchStatus(w)
       PROVE  /\ PollsGoOn(polls')
              /\ UNCHANGED <<live, layout, base, paint, raised, minted, restarts, stale, sends,
                             queued, disk, unread, lost, answered, stored, posted>>
  <2>1. PICK rows : rows = [i \in w.ids |-> ServerWord(i)]
    OBVIOUS
  <2>2. rows \in Answers
    <3>1. w.ids \in SUBSET Ids
      BY <1>1 DEF PollJobs
    <3>2. rows \in [w.ids -> Words]
      BY <2>1, ServerWordFacts
    <3> QED BY <3>1, <3>2 DEF Answers
  <2>3. PICK v : v = [w EXCEPT !.phase = "done", !.rows = rows]
    OBVIOUS
  <2>4. v \in PollJobs
    BY <1>1, <2>2, <2>3 DEF PollJobs
  <2>5. polls' = {v}
    BY <1>1, <1>10, <2>1, <2>3 DEF FetchStatus
  <2>6. PollsGoOn({v})
    BY <2>4 DEF PollsGoOn
  <2> QED BY <1>10, <2>5, <2>6 DEF FetchStatus
<1>11. ASSUME NEW w \in sends, SendWork(w)
       PROVE  /\ SendsGoOn(sends')
              /\ stored' \in [Ids -> Payloads]
              /\ posted' = posted \/ posted' = posted \cup {<<w.id, w.bytes>>}
              /\ UNCHANGED <<live, layout, base, paint, raised, minted, restarts, stale, polls,
                             queued, disk, unread, lost, answered>>
  BY <1>1, <1>7, <1>8, <1>9, <1>11 DEF SendWork
<1>12. CASE \E w \in sends : SendWork(w)
  <2>1. PICK w \in sends : SendWork(w)
    BY <1>12
  <2>2. /\ SendsGoOn(sends') /\ stored' \in [Ids -> Payloads]
        /\ posted' = posted \/ posted' = posted \cup {<<w.id, w.bytes>>}
        /\ UNCHANGED <<live, layout, base, paint, raised, minted, restarts, stale, polls, queued,
                       disk, unread, lost, answered>>
    BY <1>11, <2>1
  <2>3. posted' \subseteq posted \cup {<<v.id, v.bytes>> : v \in sends}
    BY <2>2
  <2> QED BY <1>1, <1>2, <2>2, <2>3 DEF SavedRows
<1>13. CASE \E w \in polls : FetchStatus(w)
  BY <1>1, <1>2, <1>10, <1>13 DEF SavedRows
<1> QED BY <1>3, <1>4, <1>5, <1>6, <1>12, <1>13, <1>14 DEF Aside

LEMMA CaptureFacts ==
  ASSUME FeedbackInv, Capture
  PROVE  /\ ~layout /\ layout' /\ ~stale' /\ raised' = {} /\ base' = live /\ live' = live
         /\ paint' \in FB /\ paint'.messages = live.messages /\ paint'.draft = live.draft
         /\ paint'.sending = live.sending /\ paint'.refreshing = live.refreshing
         /\ unread \/ ~paint'.dirty
         /\ queued' \in [some : BOOLEAN, rows : RowLists]
         /\ \A x, b : Copy(queued'.rows, x, b) => Copy(queued.rows, x, b) \/ Copy(live.messages, x, b)
         /\ unread' = unread /\ lost' \in BOOLEAN
         /\ unread => queued' = queued
         /\ unread \/ IF live.dirty THEN SavedRows' = live.messages
                      ELSE SavedRows' = SavedRows /\ lost' = lost
         /\ UNCHANGED <<live, minted, sends, polls, disk, stored, answered, posted, stops, restarts>>
<1>1. /\ live \in FB /\ queued \in [some : BOOLEAN, rows : RowLists] /\ RowList(live.messages)
      /\ unread \in BOOLEAN /\ lost \in BOOLEAN
  BY StateFacts DEF FeedbackInv, TypeInv
<1>2. PICK next : next = [live EXCEPT !.dirty = @ /\ ~Flushes]
  OBVIOUS
<1>3. /\ next \in FB /\ next.messages = live.messages /\ next.draft = live.draft
      /\ next.sending = live.sending /\ next.refreshing = live.refreshing
      /\ unread \/ ~next.dirty
  BY <1>1, <1>2 DEF FB, Flushes
<1>4. paint' = next
  BY <1>2 DEF Capture
<1>5. PICK q : q = [some |-> TRUE, rows |-> live.messages]
  OBVIOUS
<1>6. q \in [some : BOOLEAN, rows : RowLists] /\ q.some /\ q.rows = live.messages
  BY <1>1, <1>5, RowListsFacts
<1>7. queued' = IF Flushes THEN q ELSE queued
  BY <1>5 DEF Capture
<1>8. disk' = disk /\ unread' = unread /\ lost' = (lost /\ ~Flushes)
  BY DEF Capture
<1>9. /\ unread => queued' = queued
      /\ unread \/ IF live.dirty THEN SavedRows' = live.messages
                   ELSE SavedRows' = SavedRows /\ lost' = lost
  BY <1>1, <1>6, <1>7, <1>8 DEF SavedRows, Flushes
<1>11. lost' \in BOOLEAN
  BY <1>1, <1>8
<1>10. /\ queued' \in [some : BOOLEAN, rows : RowLists]
       /\ \A x, b : Copy(queued'.rows, x, b) => Copy(queued.rows, x, b) \/ Copy(live.messages, x, b)
  BY <1>1, <1>6, <1>7
<1> QED BY <1>3, <1>4, <1>8, <1>9, <1>10, <1>11 DEF Capture

(* A commit leaves both markers as live has them.                          *)
LEMMA CommitFacts ==
  ASSUME FeedbackInv, Commit
  PROVE  /\ layout /\ ~layout' /\ ~stale' /\ raised' = {}
         /\ base' = Fresh(<<>>) /\ paint' = Fresh(<<>>)
         /\ live' \in FB
         /\ live'.messages \in {live.messages, paint.messages}
         /\ \/ live'.draft = paint.draft
            \/ live'.draft = live.draft /\ paint.draft = base.draft
         /\ live'.sending = live.sending /\ live'.refreshing = live.refreshing
         /\ \/ live'.messages = paint.messages /\ live'.dirty = paint.dirty
            \/ live'.dirty <=> (live.dirty \/ (paint.dirty /\ ~base.dirty))
         /\ UNCHANGED <<minted, sends, polls, queued, disk, unread, lost, stored, answered,
                        posted, stops, restarts>>
<1>1. live \in FB /\ base \in FB /\ paint \in FB /\ stale \in BOOLEAN /\ layout
  BY DEF FeedbackInv, TypeInv, Commit
<1>2. CASE ~stale
  <2>1. live' = paint
    BY <1>2 DEF Commit
  <2>2. paint.sending = live.sending /\ paint.refreshing = live.refreshing
    BY <1>1, <1>2, FBFacts DEF FeedbackInv, SendInv, PollInv
  <2> QED BY <1>1, <2>1, <2>2 DEF Commit
<1>3. CASE stale
  <2>1. live' = MergeFeedback(base, paint)
    BY <1>3 DEF Commit
  <2>2. /\ live' \in FB
        /\ live'.messages \in {live.messages, paint.messages}
        /\ \/ live'.draft = paint.draft
           \/ live'.draft = live.draft /\ paint.draft = base.draft
        /\ live'.sending = MergeBusyOpt(live.sending, base.sending, paint.sending, 0)
        /\ live'.refreshing = MergeBusy(live.refreshing, base.refreshing, paint.refreshing)
        /\ live'.dirty <=> (live.dirty \/ (paint.dirty /\ ~base.dirty))
    BY <1>1, <2>1, MergeFacts
  <2>3. live'.sending = live.sending
    <3>1. /\ paint.sending = 0 => live.sending = 0
          /\ paint.sending # base.sending => live.sending \in {0, paint.sending}
      BY <1>1 DEF FeedbackInv, SendInv
    <3> QED BY <2>2, <3>1 DEF MergeBusyOpt
  <2>4. live'.refreshing = live.refreshing
    <3>1. ~paint.refreshing => ~live.refreshing
      BY <1>1 DEF FeedbackInv, PollInv
    <3>2. live.refreshing \in BOOLEAN /\ paint.refreshing \in BOOLEAN /\ base.refreshing \in BOOLEAN
      BY <1>1, FBFacts
    <3> QED BY <2>2, <3>1, <3>2 DEF MergeBusy
  <2> QED BY <1>1, <2>2, <2>3, <2>4 DEF Commit
<1> QED BY <1>1, <1>2, <1>3

LEMMA RestartFacts ==
  ASSUME FeedbackInv, Restart
  PROVE  /\ live' \in FB /\ live'.draft = NoDraft
         /\ unread' \in BOOLEAN /\ lost' = FALSE
         /\ unread' \/ live'.messages = Loaded(disk)
         /\ live'.sending = 0 /\ ~live'.refreshing
         /\ \A x, b : Copy(live'.messages, x, b) => Copy(disk, x, b)
         /\ base' = Fresh(<<>>) /\ paint' = Fresh(<<>>)
         /\ ~layout' /\ ~stale' /\ raised' = {} /\ sends' = {} /\ polls' = {}
         /\ queued' = Nothing
         /\ UNCHANGED <<minted, disk, stored, answered, posted, stops>>
<1>1. RowList(disk)
  BY StateFacts
<1>2. RowList(Loaded(disk)) /\ \A x, c : Copy(Loaded(disk), x, c) <=> Copy(disk, x, c)
  BY <1>1, LoadedFacts
<1>3. RowList(<<>>) /\ \A x, c : ~Copy(<<>>, x, c)
  BY NoRowList
<1>4. PICK rows : rows = IF unread' THEN <<>> ELSE Loaded(disk)
  OBVIOUS
<1>5. RowList(rows) /\ \A x, c : Copy(rows, x, c) => Copy(disk, x, c)
  BY <1>2, <1>3, <1>4
<1>6. live' = Fresh(rows)
  BY <1>4 DEF Restart
<1> QED BY <1>4, <1>5, <1>6, FreshFacts DEF Restart

-----------------------------------------------------------------------------
(* The invariant holds *)

LEMMA InitInv ==
  ASSUME Init
  PROVE  FeedbackInv
<1>1. /\ Fresh(<<>>) \in FB /\ Fresh(<<>>).messages = <<>> /\ Fresh(<<>>).draft = NoDraft
      /\ Fresh(<<>>).sending = 0 /\ ~Fresh(<<>>).refreshing
  BY NoRowList, FreshFacts
<1>2. NoDraft.id = 0 /\ NoDraft.step = "closed"
  BY DEF NoDraft
<1>3. Nothing \in [some : BOOLEAN, rows : RowLists] /\ Nothing.rows = <<>> /\ <<>> \in RowLists
  BY NoRowList, RowListsFacts DEF Nothing
<1>4. TypeInv
  <2>1. stored \in [Ids -> Payloads]
    BY DEF Init, Payloads
  <2>2. minted \in 0 .. MaxIds
    BY IdsAssumption DEF Init
  <2> QED BY <1>1, <1>3, <2>1, <2>2 DEF Init, TypeInv
<1>5. SendInv /\ PollInv
  BY <1>1 DEF Init, SendInv, PollInv
<1>6. RowsInv
  BY <1>1, <1>2, <1>3, NoRowList DEF Init, RowsInv, MintedInv, PayloadInv, DraftInv
<1> QED BY <1>4, <1>5, <1>6 DEF FeedbackInv

LEMMA TypeStep ==
  ASSUME FeedbackInv, [Next]_vars
  PROVE  TypeInv'
<1>1. TypeInv
  BY DEF FeedbackInv
<1>2. Fresh(<<>>) \in FB
  BY NoRowList, FreshFacts
<1>3. CASE Capture
  <2>1. /\ layout' /\ ~stale' /\ raised' = {} /\ base' = live /\ paint' \in FB
        /\ queued' \in [some : BOOLEAN, rows : RowLists]
        /\ unread' = unread /\ lost' \in BOOLEAN
        /\ UNCHANGED <<live, minted, sends, polls, disk, stored, answered>>
    BY <1>3, CaptureFacts
  <2>2. layout' = TRUE /\ stale' = FALSE
    BY <1>3 DEF Capture
  <2> QED BY <1>1, <2>1, <2>2 DEF TypeInv
<1>4. CASE Commit
  <2>1. /\ raised' = {} /\ base' = Fresh(<<>>) /\ paint' = Fresh(<<>>) /\ live' \in FB
        /\ UNCHANGED <<minted, sends, polls, queued, disk, unread, lost, stored, answered>>
    BY <1>4, CommitFacts
  <2>2. layout' = FALSE /\ stale' = FALSE
    BY <1>4 DEF Commit
  <2> QED BY <1>1, <1>2, <2>1, <2>2 DEF TypeInv
<1>5. CASE Edits
  <2>1. minted' \in 0 .. MaxIds /\ paint' \in FB
    BY <1>5, StateFacts, EditFacts, IdsAssumption DEF Edited
  <2>2. /\ layout
        /\ UNCHANGED <<live, layout, base, stale, raised, sends, polls, queued, disk, unread,
                       lost, stored, answered>>
    BY <1>5, EditFacts
  <2> QED BY <1>1, <2>1, <2>2 DEF TypeInv
<1>6. CASE Send \/ \E x \in Ids : Resend(x)
  <2>1. /\ layout /\ paint.sending = 0
        /\ UNCHANGED <<layout, base, stale, polls, queued, disk, unread, lost, stored, answered>>
    BY <1>6, StageFacts
  <2>2. PICK id \in Ids, b \in Bytes, fresh \in BOOLEAN, fb \in FB :
          /\ minted' = IF fresh THEN minted + 1 ELSE minted
          /\ id <= minted' /\ minted' <= MaxIds
          /\ Staged(fb, id, b, fresh)
          /\ Post(fb)
    BY <1>6, StageFacts
  <2>3. minted' \in 0 .. MaxIds
    BY <2>2, StateFacts, IdsAssumption
  <2>4. \/ /\ paint' = fb /\ live' \in FB /\ raised' = raised \cup {"send"}
           /\ \E w \in SendJobs : w.phase = "post" /\ sends' = {w}
        \/ paint' \in FB /\ UNCHANGED <<live, raised, sends>>
    BY <2>1, <2>2, PostFacts
  <2>5. /\ paint' \in FB /\ live' \in FB /\ raised' \subseteq {"send", "poll"}
        /\ sends' \subseteq SendJobs /\ \A w \in sends' : w.phase = "done" => w.result \in Outcomes
    BY <1>1, <2>2, <2>4 DEF TypeInv
  <2> QED BY <1>1, <2>1, <2>3, <2>5 DEF TypeInv
<1>7. CASE RefreshStatus
  BY <1>1, <1>7, RefreshFacts DEF TypeInv
<1>8. CASE Aside
  <2>1. /\ UNCHANGED <<live, layout, base, paint, raised, minted>>
        /\ stale' \in BOOLEAN /\ (~layout => ~stale')
        /\ queued' \in [some : BOOLEAN, rows : RowLists] /\ disk' \in RowLists
        /\ unread' = unread /\ lost' \in BOOLEAN
        /\ stored' \in [Ids -> Payloads] /\ answered' \subseteq Ids
    BY <1>8, AsideFacts
  <2>2. /\ sends' \subseteq SendJobs /\ polls' \subseteq PollJobs
        /\ \A w \in sends' : w.phase = "done" => w.result \in Outcomes
    BY <1>8, AsideFacts DEF SendsGoOn, PollsGoOn
  <2> QED BY <1>1, <2>1, <2>2 DEF TypeInv
<1>9. ASSUME NEW w \in sends, SendLands(w)
      PROVE  TypeInv'
  <2>1. live' \in FB
    BY <1>1, <1>9, LandFacts, ApplySendFacts DEF SendLands, TypeInv
  <2>2. /\ sends' = {} /\ stale' = layout
        /\ UNCHANGED <<layout, base, paint, raised, minted, polls, queued, disk, unread, lost,
                       stored, answered>>
    BY <1>9, LandFacts DEF SendLands
  <2> QED BY <1>1, <2>1, <2>2 DEF TypeInv
<1>10. ASSUME NEW w \in polls, PollLands(w)
       PROVE  TypeInv'
  <2>1. /\ live' \in FB /\ polls' = {} /\ stale' = layout
        /\ UNCHANGED <<layout, base, paint, raised, minted, sends, queued, disk, unread, lost,
                       stored, answered>>
    BY <1>10, PollLandFacts DEF PollLands
  <2> QED BY <1>1, <2>1 DEF TypeInv
<1>11. CASE Restart
  <2>1. Nothing \in [some : BOOLEAN, rows : RowLists]
    BY NoRowList, RowListsFacts DEF Nothing
  <2>2. /\ live' \in FB /\ base' = Fresh(<<>>) /\ paint' = Fresh(<<>>) /\ raised' = {}
        /\ sends' = {} /\ polls' = {} /\ queued' = Nothing
        /\ unread' \in BOOLEAN /\ lost' \in BOOLEAN
        /\ UNCHANGED <<minted, disk, stored, answered>>
    BY <1>11, RestartFacts
  <2>3. layout' = FALSE /\ stale' = FALSE
    BY <1>11 DEF Restart
  <2> QED BY <1>1, <1>2, <2>1, <2>2, <2>3 DEF TypeInv
<1>12. CASE UNCHANGED vars
  BY <1>1, <1>12 DEF vars, TypeInv
<1> QED BY <1>3, <1>4, <1>5, <1>6, <1>7, <1>8, <1>9, <1>10, <1>11, <1>12, NextCases

LEMMA SendStepInv ==
  ASSUME FeedbackInv, [Next]_vars
  PROVE  SendInv'
<1>1. SendInv
  BY DEF FeedbackInv
<1>2. CASE Capture
  BY <1>1, <1>2, CaptureFacts DEF SendInv
<1>3. CASE Commit
  BY <1>1, <1>3, CommitFacts DEF SendInv
<1>4. CASE Edits
  <2>1. paint'.sending = paint.sending /\ UNCHANGED <<live, layout, base, stale, raised, sends>>
    BY <1>4, EditFacts DEF Edited
  <2> QED BY <1>1, <2>1 DEF SendInv
<1>5. CASE Send \/ \E x \in Ids : Resend(x)
  <2>1. layout /\ paint.sending = 0 /\ UNCHANGED <<layout, base, stale>>
    BY <1>5, StageFacts
  <2>2. PICK id \in Ids, b \in Bytes, fresh \in BOOLEAN, fb \in FB :
          Staged(fb, id, b, fresh) /\ Post(fb)
    BY <1>5, StageFacts
  <2>3. fb.sending = id /\ id # 0
    BY <2>2, IdFacts DEF Staged
  <2>4. \/ /\ paint' = fb /\ live'.sending = id /\ raised' = raised \cup {"send"}
           /\ \E w \in SendJobs : w.id = id /\ sends' = {w}
        \/ paint'.sending = 0 /\ UNCHANGED <<live, raised, sends>>
    BY <2>1, <2>2, PostFacts
  <2>5. CASE paint' = fb /\ live'.sending = id /\ raised' = raised \cup {"send"}
             /\ \E w \in SendJobs : w.id = id /\ sends' = {w}
    BY <2>1, <2>3, <2>5 DEF SendInv
  <2>6. CASE paint'.sending = 0 /\ UNCHANGED <<live, raised, sends>>
    BY <1>1, <2>1, <2>6 DEF SendInv
  <2> QED BY <2>4, <2>5, <2>6
<1>6. CASE RefreshStatus
  <2>1. /\ paint'.sending = paint.sending /\ live'.sending = live.sending
        /\ raised' = raised \cup {"poll"}
        /\ UNCHANGED <<layout, base, stale, sends>>
    BY <1>6, RefreshFacts
  <2> QED BY <1>1, <2>1 DEF SendInv
<1>7. CASE Aside
  <2>1. /\ UNCHANGED <<live, layout, base, paint, raised>>
        /\ stale => stale'
        /\ \A v \in sends' : \E w \in sends : v.id = w.id
        /\ \A v, w \in sends' : v = w
    BY <1>7, AsideFacts DEF SendsGoOn
  <2>2. \A v \in sends' : v.id = live.sending
    BY <1>1, <2>1 DEF SendInv
  <2> QED BY <1>1, <2>1, <2>2 DEF SendInv
<1>8. ASSUME NEW w \in sends, SendLands(w)
      PROVE  SendInv'
  <2>1. /\ sends' = {} /\ stale' = layout /\ UNCHANGED <<layout, base, paint, raised>>
        /\ layout => paint.sending # 0
        /\ live.sending = w.id /\ w.id \in Ids
    BY <1>8, LandFacts DEF SendLands
  <2>2. live'.sending = 0
    BY <1>8, <2>1, LandFacts, ApplySendFacts DEF SendLands, FeedbackInv, TypeInv
  <2>3. layout => stale'
    BY <2>1
  <2> QED BY <1>1, <2>1, <2>2, <2>3 DEF SendInv
<1>9. ASSUME NEW w \in polls, PollLands(w)
      PROVE  SendInv'
  <2>1. /\ live'.sending = live.sending /\ stale' = layout
        /\ UNCHANGED <<layout, base, paint, raised, sends>>
    BY <1>9, PollLandFacts DEF PollLands
  <2>2. layout => stale'
    BY <2>1
  <2> QED BY <1>1, <2>1, <2>2 DEF SendInv
<1>10. CASE Restart
  BY <1>10, RestartFacts DEF SendInv
<1>11. CASE UNCHANGED vars
  BY <1>1, <1>11 DEF vars, SendInv
<1> QED BY <1>2, <1>3, <1>4, <1>5, <1>6, <1>7, <1>8, <1>9, <1>10, <1>11, NextCases

LEMMA PollStepInv ==
  ASSUME FeedbackInv, [Next]_vars
  PROVE  PollInv'
<1>1. PollInv
  BY DEF FeedbackInv
<1>2. CASE Capture
  BY <1>1, <1>2, CaptureFacts DEF PollInv
<1>3. CASE Commit
  BY <1>1, <1>3, CommitFacts DEF PollInv
<1>4. CASE Edits
  <2>1. paint'.refreshing = paint.refreshing /\ UNCHANGED <<live, layout, base, stale, raised, polls>>
    BY <1>4, EditFacts DEF Edited
  <2> QED BY <1>1, <2>1 DEF PollInv
<1>5. CASE Send \/ \E x \in Ids : Resend(x)
  <2>1. layout /\ paint.sending = 0 /\ UNCHANGED <<layout, base, stale, polls>>
    BY <1>5, StageFacts
  <2>2. PICK id \in Ids, b \in Bytes, fresh \in BOOLEAN, fb \in FB :
          Staged(fb, id, b, fresh) /\ Post(fb)
    BY <1>5, StageFacts
  <2>3. /\ paint'.refreshing = paint.refreshing /\ live'.refreshing = live.refreshing
        /\ raised' \in {raised, raised \cup {"send"}}
    BY <2>1, <2>2, PostFacts DEF Staged
  <2> QED BY <1>1, <2>1, <2>3 DEF PollInv
<1>6. CASE RefreshStatus
  <2>1. /\ paint'.refreshing /\ live'.refreshing
        /\ raised' = raised \cup {"poll"}
        /\ \E w \in PollJobs : polls' = {w}
        /\ UNCHANGED <<layout, base, stale>>
    BY <1>6, RefreshFacts
  <2> QED BY <1>1, <2>1 DEF PollInv
<1>7. CASE Aside
  <2>1. /\ UNCHANGED <<live, layout, base, paint, raised>>
        /\ stale => stale'
        /\ polls' # {} => polls # {}
        /\ \A v, w \in polls' : v = w
    BY <1>7, AsideFacts DEF PollsGoOn
  <2> QED BY <1>1, <2>1 DEF PollInv
<1>8. ASSUME NEW w \in sends, SendLands(w)
      PROVE  PollInv'
  <2>1. stale' = layout /\ UNCHANGED <<layout, base, paint, raised, polls>>
    BY <1>8, LandFacts DEF SendLands
  <2>2. live'.refreshing = live.refreshing
    BY <1>8, LandFacts, ApplySendFacts DEF SendLands, FeedbackInv, TypeInv
  <2>3. layout => stale'
    BY <2>1
  <2> QED BY <1>1, <2>1, <2>2, <2>3 DEF PollInv
<1>9. ASSUME NEW w \in polls, PollLands(w)
      PROVE  PollInv'
  <2>1. /\ ~live'.refreshing /\ stale' = layout /\ polls' = {} /\ live.refreshing
        /\ UNCHANGED <<layout, base, paint, raised>>
    BY <1>9, PollLandFacts DEF PollLands
  <2>2. layout => stale'
    BY <2>1
  <2> QED BY <1>1, <2>1, <2>2 DEF PollInv
<1>10. CASE Restart
  BY <1>10, RestartFacts DEF PollInv
<1>11. CASE UNCHANGED vars
  BY <1>1, <1>11 DEF vars, PollInv
<1> QED BY <1>2, <1>3, <1>4, <1>5, <1>6, <1>7, <1>8, <1>9, <1>10, <1>11, NextCases

(* The rows and drafts of the invariant, without their bounds.             *)
LEMMA RowsFacts ==
  ASSUME FeedbackInv
  PROVE  /\ MintedInv /\ PayloadInv /\ DraftInv
         /\ layout /\ paint.sending = 0 =>
              \A x : Copy(live.messages, x, 0) /\ Has(paint.messages, x) => Copy(paint.messages, x, 0)
         /\ \A w \in sends : w.id \in Ids /\ w.id <= minted
         /\ NoDraft.id = 0 /\ NoDraft.step = "closed"
         /\ minted \in Nat
         /\ \A x, b : Copy(live.messages, x, b) \/ Copy(paint.messages, x, b) => x <= minted
         /\ \A x, b : Copy(queued.rows, x, b) \/ Copy(disk, x, b) => x <= minted
         /\ live.draft.id <= minted /\ base.draft.id <= minted /\ paint.draft.id <= minted
<1>1. MintedInv /\ PayloadInv /\ DraftInv
  BY DEF FeedbackInv, RowsInv
<1>2. /\ \A w \in sends : w.id \in Ids /\ w.id <= minted
      /\ minted \in Nat
      /\ \A x, b : Copy(live.messages, x, b) \/ Copy(paint.messages, x, b) => x <= minted
      /\ \A x, b : Copy(queued.rows, x, b) \/ Copy(disk, x, b) => x <= minted
      /\ live.draft.id <= minted /\ base.draft.id <= minted /\ paint.draft.id <= minted
  BY <1>1, StateFacts DEF MintedInv
<1>3. ASSUME layout, paint.sending = 0, NEW x, Copy(live.messages, x, 0), Has(paint.messages, x)
      PROVE  Copy(paint.messages, x, 0)
  <2>1. x \in Ids
    BY <1>3, StateFacts, CopyType
  <2> QED BY <1>1, <1>3, <2>1 DEF PayloadInv
<1> QED BY <1>1, <1>2, <1>3 DEF NoDraft

LEMMA MintedStep ==
  ASSUME FeedbackInv, [Next]_vars
  PROVE  MintedInv'
<1>1. /\ minted \in Nat
      /\ \A w \in sends : w.id \in Ids /\ w.id <= minted
      /\ \A x, b : Copy(live.messages, x, b) \/ Copy(paint.messages, x, b) => x <= minted
      /\ \A x, b : Copy(queued.rows, x, b) \/ Copy(disk, x, b) => x <= minted
      /\ live.draft.id <= minted /\ base.draft.id <= minted /\ paint.draft.id <= minted
      /\ NoDraft.id = 0
  BY RowsFacts
<1>2. /\ Fresh(<<>>).draft = NoDraft /\ Fresh(<<>>).messages = <<>>
      /\ \A x, b : ~Copy(Fresh(<<>>).messages, x, b)
  BY NoRowList, FreshFacts
<1>3. CASE Capture
  <2>1. /\ live' = live /\ base' = live /\ paint'.messages = live.messages
        /\ paint'.draft = live.draft
        /\ \A x, b : Copy(queued'.rows, x, b) => Copy(queued.rows, x, b) \/ Copy(live.messages, x, b)
        /\ UNCHANGED <<minted, sends, disk>>
    BY <1>3, CaptureFacts
  <2> QED BY <1>1, <2>1 DEF MintedInv
<1>4. CASE Commit
  <2>1. /\ base' = Fresh(<<>>) /\ paint' = Fresh(<<>>)
        /\ live'.messages \in {live.messages, paint.messages}
        /\ live'.draft \in {live.draft, paint.draft}
        /\ UNCHANGED <<minted, sends, queued, disk, unread, lost>>
    BY <1>4, CommitFacts
  <2> QED BY <1>1, <1>2, <2>1 DEF MintedInv
<1>5. CASE Edits
  <2>1. UNCHANGED <<live, base, sends, queued, disk, unread, lost>>
    BY <1>5, EditFacts
  <2>2. PICK fresh \in BOOLEAN :
          minted' = (IF fresh THEN minted + 1 ELSE minted) /\ Edited(paint', fresh)
    BY <1>5, EditFacts
  <2>3. /\ \A x, b : Copy(paint'.messages, x, b) =>
              Copy(paint.messages, x, b) \/ (fresh /\ x = minted + 1)
        /\ \/ paint'.draft = NoDraft
           \/ fresh /\ paint'.draft.id = minted + 1
           \/ paint'.draft.id = paint.draft.id
    BY <2>2 DEF Edited
  <2>4. minted <= minted' /\ minted' \in Nat /\ (fresh => minted' = minted + 1)
    BY <1>1, <2>2
  <2>5. \A x \in Ids : \A b : Copy(paint'.messages, x, b) => x <= minted'
    BY <1>1, <2>3, <2>4, IdFacts
  <2>6. paint'.draft.id <= minted'
    BY <1>1, <2>3, <2>4, StateFacts, DraftFacts
  <2>7. /\ \A x \in Ids : x <= minted => x <= minted'
        /\ live.draft.id <= minted' /\ base.draft.id <= minted'
    BY <1>1, <2>4, StateFacts, DraftFacts, IdFacts
  <2> QED BY <1>1, <2>1, <2>5, <2>6, <2>7 DEF MintedInv
<1>6. CASE Send \/ \E x \in Ids : Resend(x)
  <2>1. layout /\ paint.sending = 0 /\ UNCHANGED <<layout, base, queued, disk, unread, lost>>
    BY <1>6, StageFacts
  <2>2. PICK id \in Ids, b \in Bytes, fresh \in BOOLEAN, fb \in FB :
          /\ minted' = IF fresh THEN minted + 1 ELSE minted
          /\ id <= minted'
          /\ Staged(fb, id, b, fresh)
          /\ Post(fb)
    BY <1>6, StageFacts
  <2>3. /\ live'.messages = live.messages /\ live'.draft = live.draft
        /\ \A x, c : Copy(paint'.messages, x, c) => Copy(fb.messages, x, c)
        /\ paint'.draft.id = fb.draft.id
        /\ sends' = sends \/ \E w \in SendJobs : w.id = id /\ sends' = {w}
    BY <2>1, <2>2, PostFacts
  <2>4. /\ \A x, c : Copy(fb.messages, x, c) => x = id \/ Copy(paint.messages, x, c)
        /\ fb.draft.id = paint.draft.id \/ fb.draft.id = id
    BY <2>2 DEF Staged
  <2>5. minted <= minted' /\ minted' \in Nat
    BY <1>1, <2>2
  <2>6. /\ \A x \in Ids : x <= minted => x <= minted'
        /\ live.draft.id <= minted' /\ base.draft.id <= minted' /\ paint.draft.id <= minted'
    BY <1>1, <2>5, StateFacts, DraftFacts, IdFacts
  <2>7. \A x \in Ids : \A c : Copy(paint'.messages, x, c) => x <= minted'
    BY <1>1, <2>2, <2>3, <2>4, <2>6
  <2>8. \A w \in sends' : w.id <= minted'
    BY <1>1, <2>2, <2>3, <2>6
  <2> QED BY <1>1, <2>1, <2>2, <2>3, <2>4, <2>6, <2>7, <2>8 DEF MintedInv
<1>7. CASE RefreshStatus
  <2>1. /\ paint'.messages = paint.messages /\ paint'.draft = paint.draft
        /\ live'.messages = live.messages /\ live'.draft = live.draft
        /\ UNCHANGED <<base, minted, sends, queued, disk, unread, lost>>
    BY <1>7, RefreshFacts
  <2> QED BY <1>1, <2>1 DEF MintedInv
<1>8. CASE Aside
  <2>1. /\ UNCHANGED <<live, base, paint, minted>>
        /\ \A x, b : Copy(queued'.rows, x, b) \/ Copy(disk', x, b) =>
                        Copy(queued.rows, x, b) \/ Copy(disk, x, b)
        /\ \A v \in sends' : \E w \in sends : v.id = w.id
    BY <1>8, AsideFacts DEF SendsGoOn
  <2> QED BY <1>1, <2>1 DEF MintedInv
<1>9. ASSUME NEW w \in sends, SendLands(w)
      PROVE  MintedInv'
  <2>1. /\ sends' = {} /\ UNCHANGED <<base, paint, minted, queued, disk, unread, lost>>
        /\ w.id \in Ids /\ w.id <= minted /\ ~Copy(live.messages, w.id, 0)
    BY <1>9, LandFacts DEF SendLands
  <2>2. PICK status \in Outcomes : live' = ApplySendResult(live, w.id, status)
    BY <1>9, LandFacts DEF SendLands
  <2>3. /\ live'.draft.id = live.draft.id
        /\ \A x, b : Copy(live'.messages, x, b) => Copy(live.messages, x, b) \/ x = w.id
    <3>1. live \in FB
      BY DEF FeedbackInv, TypeInv
    <3>2. ApplySendResult(live, w.id, status).draft.id = live.draft.id
      BY <2>1, <3>1, ApplySendFacts
    <3>3. ASSUME NEW x, NEW b, Copy(ApplySendResult(live, w.id, status).messages, x, b)
          PROVE  Copy(live.messages, x, b) \/ x = w.id
      <4>1. \/ Copy(live.messages, x, b)
            \/ x = w.id /\ b = 0 /\ status # "Failed" /\ Has(live.messages, w.id)
        BY <2>1, <3>1, <3>3, ApplySendFacts, SMTT(30)
      <4> QED BY <4>1
    <3> QED BY <2>2, <3>2, <3>3
  <2> QED BY <1>1, <2>1, <2>3 DEF MintedInv
<1>10. ASSUME NEW w \in polls, PollLands(w)
       PROVE  MintedInv'
  <2>1. /\ live'.draft = live.draft
        /\ \A x, b : Copy(live'.messages, x, b) <=> Copy(live.messages, x, b)
        /\ UNCHANGED <<base, paint, minted, sends, queued, disk, unread, lost>>
    BY <1>10, PollLandFacts DEF PollLands
  <2> QED BY <1>1, <2>1 DEF MintedInv
<1>11. CASE Restart
  <2>1. /\ live'.draft = NoDraft
        /\ \A x, b : Copy(live'.messages, x, b) => Copy(disk, x, b)
        /\ base' = Fresh(<<>>) /\ paint' = Fresh(<<>>) /\ sends' = {} /\ queued' = Nothing
        /\ UNCHANGED <<minted, disk>>
    BY <1>11, RestartFacts
  <2>2. \A x, b : ~Copy(Nothing.rows, x, b)
    BY NoRowList DEF Nothing
  <2> QED BY <1>1, <1>2, <2>1, <2>2 DEF MintedInv
<1>12. CASE UNCHANGED vars
  BY <1>1, <1>12 DEF vars, MintedInv
<1> QED BY <1>3, <1>4, <1>5, <1>6, <1>7, <1>8, <1>9, <1>10, <1>11, <1>12, NextCases

LEMMA PayloadStep ==
  ASSUME FeedbackInv, [Next]_vars
  PROVE  PayloadInv'
<1>1. PayloadInv
  BY RowsFacts
<1>2. /\ Fresh(<<>>).draft = NoDraft /\ NoDraft.step = "closed"
      /\ \A x, b : ~Copy(Fresh(<<>>).messages, x, b)
  BY NoRowList, FreshFacts, RowsFacts
<1>3. CASE Capture
  <2>1. /\ live' = live /\ paint'.messages = live.messages /\ paint'.draft = live.draft
        /\ sends' = sends
    BY <1>3, CaptureFacts
  <2> QED BY <1>1, <2>1 DEF PayloadInv
<1>4. CASE Commit
  <2>1. /\ ~layout' /\ paint' = Fresh(<<>>) /\ sends' = sends
        /\ live'.messages \in {live.messages, paint.messages}
        /\ live'.draft \in {live.draft, paint.draft}
    BY <1>4, CommitFacts
  <2> QED BY <1>1, <1>2, <2>1 DEF PayloadInv
<1>5. CASE Edits
  <2>1. layout /\ UNCHANGED <<live, layout, sends>>
    BY <1>5, EditFacts
  <2>2. PICK fresh \in BOOLEAN : Edited(paint', fresh)
    BY <1>5, EditFacts
  <2>3. /\ paint'.sending = paint.sending /\ RowList(paint'.messages)
        /\ \A x, c : Copy(paint'.messages, x, c) =>
             \/ Copy(paint.messages, x, c)
             \/ x = minted + 1 /\ c = 0 /\ paint'.draft.id # x
        /\ \/ paint'.draft = NoDraft
           \/ paint'.draft.id = minted + 1
           \/ paint'.draft.id = paint.draft.id /\ paint'.draft.step = paint.draft.step
    BY <2>2, FBFacts DEF Edited
  <2>4. /\ minted \in Nat /\ live.draft.id <= minted
        /\ \A w \in sends : w.id # minted + 1
        /\ \A x, b : Copy(live.messages, x, b) \/ Copy(paint.messages, x, b) => x # minted + 1
        /\ live.draft.id # minted + 1
    BY RowsFacts, StateFacts, DraftFacts, IdFacts
  <2>5. \A w \in sends : ~Copy(paint'.messages, w.id, 0)
    BY <1>1, <2>3, <2>4 DEF PayloadInv
  <2>6. ASSUME paint.sending = 0, NEW x \in Ids, Copy(live.messages, x, 0), Has(paint'.messages, x)
        PROVE  Copy(paint'.messages, x, 0)
    <3>1. PICK c \in Payloads : Copy(paint'.messages, x, c)
      BY <2>3, <2>6, HasCopy
    <3>2. Copy(paint.messages, x, c)
      BY <2>3, <2>4, <2>6, <3>1
    <3>3. Copy(paint.messages, x, 0)
      BY <2>1, <2>6, <3>2, RowsFacts, StateFacts, HasCopy, CopyType
    <3> QED BY <3>1, <3>2, <3>3, StateFacts, CopyOne
  <2>7. live.draft.step = "edit" => ~Copy(paint'.messages, live.draft.id, 0)
    BY <1>1, <2>3, <2>4 DEF PayloadInv
  <2>8. paint'.draft.step = "edit" =>
          ~Copy(live.messages, paint'.draft.id, 0) /\ ~Copy(paint'.messages, paint'.draft.id, 0)
    BY <1>1, <1>2, <2>3, <2>4 DEF PayloadInv
  <2> QED BY <1>1, <2>1, <2>3, <2>5, <2>6, <2>7, <2>8 DEF PayloadInv
<1>6. CASE Send \/ \E x \in Ids : Resend(x)
  <2>1. layout /\ paint.sending = 0 /\ layout' = layout
    BY <1>6, StageFacts
  <2>2. PICK id \in Ids, b \in Bytes, fresh \in BOOLEAN, fb \in FB :
          Staged(fb, id, b, fresh) /\ Post(fb)
    BY <1>6, StageFacts
  <2>3. /\ ~Copy(live.messages, id, 0) /\ fb.sending = id /\ id # 0 /\ b # 0
        /\ \A x, c : Copy(fb.messages, x, c) =>
             (x = id /\ c = b) \/ (x # id /\ Copy(paint.messages, x, c))
        /\ \/ fb.draft = paint.draft /\ paint.draft.id # id
           \/ fb.draft.id = id /\ fb.draft.step = "sending"
        /\ RowList(fb.messages)
    BY <2>2, IdFacts, RowFacts, FBFacts DEF Staged
  <2>4. ~Copy(fb.messages, id, 0) /\ \A x : Copy(fb.messages, x, 0) => Copy(paint.messages, x, 0)
    BY <2>3
  <2>5. ASSUME NEW x, Copy(live.messages, x, 0), Has(fb.messages, x)
        PROVE  Copy(fb.messages, x, 0)
    <3>1. PICK c \in Payloads : Copy(fb.messages, x, c)
      BY <2>3, <2>5, HasCopy
    <3>2. x # id /\ Copy(paint.messages, x, c)
      BY <2>3, <2>5, <3>1
    <3>3. Copy(paint.messages, x, 0)
      BY <2>1, <2>5, <3>2, RowsFacts, StateFacts, HasCopy, CopyType
    <3> QED BY <3>1, <3>2, <3>3, StateFacts, CopyOne
  <2>6. CASE /\ paint' = fb /\ live'.messages = live.messages /\ live'.draft = live.draft
             /\ \E w \in SendJobs : w.id = id /\ sends' = {w}
    <3>1. \A w \in sends' : ~Copy(live'.messages, w.id, 0) /\ ~Copy(paint'.messages, w.id, 0)
      BY <2>3, <2>4, <2>6
    <3>2. paint'.sending # 0
      BY <2>3, <2>6
    <3>3. live'.draft.step = "edit" =>
            ~Copy(live'.messages, live'.draft.id, 0) /\ ~Copy(paint'.messages, live'.draft.id, 0)
      BY <1>1, <2>4, <2>6 DEF PayloadInv
    <3>4. paint'.draft.step = "edit" =>
            ~Copy(live'.messages, paint'.draft.id, 0) /\ ~Copy(paint'.messages, paint'.draft.id, 0)
      BY <1>1, <2>3, <2>4, <2>6 DEF PayloadInv
    <3> QED BY <3>1, <3>2, <3>3, <3>4 DEF PayloadInv
  <2>7. CASE /\ paint' \in FB
             /\ \A x, c : Copy(paint'.messages, x, c) <=> Copy(fb.messages, x, c)
             /\ \A x : Has(paint'.messages, x) <=> Has(fb.messages, x)
             /\ paint'.draft.id = fb.draft.id
             /\ IF fb.draft.id = id THEN paint'.draft.step = "edit" ELSE paint'.draft = fb.draft
             /\ UNCHANGED <<live, raised, sends>>
    <3>1. \A w \in sends' : ~Copy(live'.messages, w.id, 0) /\ ~Copy(paint'.messages, w.id, 0)
      BY <1>1, <2>4, <2>7 DEF PayloadInv
    <3>2. \A x \in Ids : Copy(live'.messages, x, 0) /\ Has(paint'.messages, x) => Copy(paint'.messages, x, 0)
      BY <2>5, <2>7
    <3>3. live'.draft.step = "edit" =>
            ~Copy(live'.messages, live'.draft.id, 0) /\ ~Copy(paint'.messages, live'.draft.id, 0)
      BY <1>1, <2>4, <2>7 DEF PayloadInv
    <3>4. paint'.draft.step = "edit" =>
            ~Copy(live'.messages, paint'.draft.id, 0) /\ ~Copy(paint'.messages, paint'.draft.id, 0)
      BY <1>1, <2>3, <2>4, <2>7 DEF PayloadInv
    <3> QED BY <3>1, <3>2, <3>3, <3>4 DEF PayloadInv
  <2> QED BY <2>1, <2>2, <2>6, <2>7, PostFacts
<1>7. CASE RefreshStatus
  <2>1. /\ paint'.messages = paint.messages /\ paint'.draft = paint.draft
        /\ paint'.sending = paint.sending
        /\ live'.messages = live.messages /\ live'.draft = live.draft
        /\ UNCHANGED <<layout, sends>>
    BY <1>7, RefreshFacts
  <2> QED BY <1>1, <2>1 DEF PayloadInv
<1>8. CASE Aside
  <2>1. /\ UNCHANGED <<live, layout, paint>>
        /\ \A v \in sends' : \E w \in sends : v.id = w.id
    BY <1>8, AsideFacts DEF SendsGoOn
  <2> QED BY <1>1, <2>1 DEF PayloadInv
<1>9. ASSUME NEW w \in sends, SendLands(w)
      PROVE  PayloadInv'
  <2>1. /\ sends' = {} /\ UNCHANGED <<layout, paint>>
        /\ layout => paint.sending # 0
        /\ w.id \in Ids /\ ~Copy(live.messages, w.id, 0) /\ ~Copy(paint.messages, w.id, 0)
    BY <1>9, LandFacts DEF SendLands
  <2>2. PICK status \in Outcomes : live' = ApplySendResult(live, w.id, status)
    BY <1>9, LandFacts DEF SendLands
  <2>3. /\ live'.draft.id = live.draft.id
        /\ \/ live'.draft = live.draft
           \/ live.draft.id = w.id /\ (live'.draft.step = "edit" => status = "Failed")
        /\ \/ ~Has(live.messages, w.id)
           \/ live.draft.id # w.id
           \/ status # "Failed" => live'.draft.step = "sent"
        /\ \A x, c : Copy(live'.messages, x, c) =>
             \/ Copy(live.messages, x, c)
             \/ x = w.id /\ status # "Failed" /\ Has(live.messages, w.id)
    <3>1. live \in FB
      BY DEF FeedbackInv, TypeInv
    <3>2. /\ live'.draft.id = live.draft.id
          /\ \/ live'.draft = live.draft
             \/ live.draft.id = w.id /\ (live'.draft.step = "edit" => status = "Failed")
      BY <2>1, <2>2, <3>1, ApplySendFacts
    <3>3. \/ ~Has(live.messages, w.id)
          \/ live.draft.id # w.id
          \/ status # "Failed" => live'.draft.step = "sent"
      BY <2>1, <2>2, <3>1, ApplySendFacts
    <3>4. \A x, c : Copy(live'.messages, x, c) =>
             \/ Copy(live.messages, x, c)
             \/ x = w.id /\ status # "Failed" /\ Has(live.messages, w.id)
      <4>1. \A x, c : Copy(ApplySendResult(live, w.id, status).messages, x, c) =>
              (\/ Copy(live.messages, x, c)
               \/ x = w.id /\ c = 0 /\ status # "Failed" /\ Has(live.messages, w.id))
        BY <2>1, <3>1, ApplySendFacts
      <4> QED BY <2>2, <4>1
    <3> QED BY <3>2, <3>3, <3>4
  <2>4. live'.draft.step = "edit" =>
          ~Copy(live'.messages, live'.draft.id, 0) /\ ~Copy(paint.messages, live'.draft.id, 0)
    BY <1>1, <2>1, <2>3 DEF PayloadInv
  <2>5. paint.draft.step = "edit" => paint.draft.id # w.id
    <3>1. CASE layout
      BY <1>9, <3>1, RowsFacts DEF DraftInv
    <3>2. CASE ~layout
      BY <1>2, <3>2, StateFacts
    <3> QED BY <3>1, <3>2
  <2>6. paint.draft.step = "edit" =>
          ~Copy(live'.messages, paint.draft.id, 0) /\ ~Copy(paint.messages, paint.draft.id, 0)
    BY <1>1, <2>3, <2>5 DEF PayloadInv
  <2> QED BY <2>1, <2>4, <2>6 DEF PayloadInv
<1>10. ASSUME NEW w \in polls, PollLands(w)
       PROVE  PayloadInv'
  <2>1. /\ live'.draft = live.draft
        /\ \A x, b : Copy(live'.messages, x, b) <=> Copy(live.messages, x, b)
        /\ UNCHANGED <<layout, paint, sends>>
    BY <1>10, PollLandFacts DEF PollLands
  <2> QED BY <1>1, <2>1 DEF PayloadInv
<1>11. CASE Restart
  <2>1. live'.draft = NoDraft /\ ~layout' /\ paint' = Fresh(<<>>) /\ sends' = {}
    BY <1>11, RestartFacts
  <2> QED BY <1>2, <2>1 DEF PayloadInv
<1>12. CASE UNCHANGED vars
  BY <1>1, <1>12 DEF vars, PayloadInv
<1> QED BY <1>3, <1>4, <1>5, <1>6, <1>7, <1>8, <1>9, <1>10, <1>11, <1>12, NextCases

LEMMA DraftStep ==
  ASSUME FeedbackInv, [Next]_vars
  PROVE  DraftInv'
<1>1. DraftInv
  BY RowsFacts
<1>2. CASE Capture
  <2>1. /\ ~layout /\ layout' /\ live' = live /\ base' = live /\ paint'.draft = live.draft
        /\ sends' = sends
    BY <1>2, CaptureFacts
  <2> QED BY <1>1, <2>1 DEF DraftInv
<1>3. CASE Commit
  <2>1. /\ layout /\ ~layout' /\ sends' = sends
        /\ \/ live'.draft = paint.draft
           \/ live'.draft = live.draft /\ paint.draft = base.draft
    BY <1>3, CommitFacts
  <2> QED BY <1>1, <2>1 DEF DraftInv
<1>4. CASE Edits
  <2>1. layout /\ UNCHANGED <<live, layout, base, sends>>
    BY <1>4, EditFacts
  <2>2. PICK fresh \in BOOLEAN : Edited(paint', fresh)
    BY <1>4, EditFacts
  <2>3. /\ paint'.sending = paint.sending
        /\ \/ paint'.draft = NoDraft
           \/ paint'.draft.id = minted + 1
           \/ paint'.draft.id = paint.draft.id /\ paint'.draft.step = paint.draft.step
    BY <2>2 DEF Edited
  <2>4. \A w \in sends : w.id # minted + 1 /\ w.id # NoDraft.id
    BY RowsFacts, IdFacts
  <2> QED BY <1>1, <2>1, <2>3, <2>4 DEF DraftInv
<1>5. CASE Send \/ \E x \in Ids : Resend(x)
  <2>1. layout /\ paint.sending = 0 /\ UNCHANGED <<layout, base>>
    BY <1>5, StageFacts
  <2>2. PICK id \in Ids, b \in Bytes, fresh \in BOOLEAN, fb \in FB :
          Staged(fb, id, b, fresh) /\ Post(fb)
    BY <1>5, StageFacts
  <2>3. \/ fb.draft = paint.draft /\ paint.draft.id # id
        \/ fb.draft.id = id /\ fb.draft.step = "sending"
    BY <2>2 DEF Staged
  <2>4. /\ live'.draft = live.draft
        /\ \/ paint' = fb /\ \E w \in SendJobs : w.id = id /\ sends' = {w}
           \/ sends' = sends
    BY <2>1, <2>2, PostFacts
  <2>5. sends = {}
    <3>1. \A w \in sends : w.id \in Ids /\ w.id = 0
      BY <2>1, RowsFacts DEF FeedbackInv, SendInv
    <3> QED BY <3>1, IdFacts
  <2>6. live.draft = base.draft
    BY <1>1, <2>1 DEF DraftInv
  <2> QED BY <2>1, <2>3, <2>4, <2>5, <2>6 DEF DraftInv
<1>6. CASE RefreshStatus
  <2>1. /\ paint'.draft = paint.draft /\ paint'.sending = paint.sending /\ live'.draft = live.draft
        /\ UNCHANGED <<layout, base, sends>>
    BY <1>6, RefreshFacts
  <2> QED BY <1>1, <2>1 DEF DraftInv
<1>7. CASE Aside
  <2>1. /\ UNCHANGED <<live, layout, base, paint>>
        /\ \A v \in sends' : \E w \in sends : v.id = w.id
    BY <1>7, AsideFacts DEF SendsGoOn
  <2> QED BY <1>1, <2>1 DEF DraftInv
<1>8. ASSUME NEW w \in sends, SendLands(w)
      PROVE  DraftInv'
  <2>1. /\ sends' = {} /\ UNCHANGED <<layout, base, paint>>
        /\ layout => paint.sending # 0
    BY <1>8, LandFacts DEF SendLands
  <2>2. live'.draft.id = live.draft.id
    BY <1>8, LandFacts, ApplySendFacts DEF SendLands, FeedbackInv, TypeInv
  <2> QED BY <1>1, <2>1, <2>2 DEF DraftInv
<1>9. ASSUME NEW w \in polls, PollLands(w)
      PROVE  DraftInv'
  <2>1. live'.draft = live.draft /\ UNCHANGED <<layout, base, paint, sends>>
    BY <1>9, PollLandFacts DEF PollLands
  <2> QED BY <1>1, <2>1 DEF DraftInv
<1>10. CASE Restart
  BY <1>10, RestartFacts DEF DraftInv
<1>11. CASE UNCHANGED vars
  BY <1>1, <1>11 DEF vars, DraftInv
<1> QED BY <1>2, <1>3, <1>4, <1>5, <1>6, <1>7, <1>8, <1>9, <1>10, <1>11, NextCases

(* Every behaviour keeps the invariant: the frame's copy, the workers and  *)
(* the live state agree on who is sending, and no report loses its payload *)
(* while a failure may still need it.                                      *)
THEOREM FeedbackInvHolds == Spec => []FeedbackInv
<1>1. Init => FeedbackInv
  BY InitInv
<1>2. FeedbackInv /\ [Next]_vars => FeedbackInv'
  <2> SUFFICES ASSUME FeedbackInv, [Next]_vars PROVE FeedbackInv'
    OBVIOUS
  <2>1. TypeInv' /\ SendInv' /\ PollInv'
    BY TypeStep, SendStepInv, PollStepInv
  <2>2. MintedInv' /\ PayloadInv' /\ DraftInv'
    BY MintedStep, PayloadStep, DraftStep
  <2> QED BY <2>1, <2>2 DEF FeedbackInv, RowsInv
<1> QED BY <1>1, <1>2, PTL DEF Spec

(* The rows, drafts, workers and the server's reports keep their types,    *)
(* for any payloads and any number of ids, answers, Stops and restarts.    *)
THEOREM TypeCorrect == Spec => []TypeOK
<1>1. FeedbackInv => TypeOK
  <2> SUFFICES ASSUME FeedbackInv PROVE TypeOK
    OBVIOUS
  <2>1. ASSUME NEW fb \in FB PROVE Feedback(fb)
    BY FBFacts, DraftFacts DEF Feedback
  <2>2. Feedback(live) /\ Feedback(base) /\ Feedback(paint)
    BY <2>1 DEF FeedbackInv, TypeInv
  <2>3. /\ \A w \in sends : w.id \in Ids /\ w.bytes \in Bytes
        /\ \A w \in polls : w.ids \subseteq Ids
    BY DEF FeedbackInv, TypeInv, SendJobs, PollJobs
  <2>4. disk \in Seq(Row) /\ queued.rows \in Seq(Row)
    BY DEF FeedbackInv, TypeInv, RowLists
  <2> QED BY <2>2, <2>3, <2>4 DEF FeedbackInv, TypeInv, TypeOK, Payloads
<1> QED BY <1>1, FeedbackInvHolds, PTL

(* merge_paint and publish_raised_busy keep sends and refreshes single:    *)
(* whatever the player clicks while a frame and a worker overlap.          *)
THEOREM OneSendCorrect == Spec => []OneSendInFlight
<1>1. ASSUME NEW S, \A v, w \in S : v = w
      PROVE  Cardinality(S) <= 1
  <2>1. CASE S = {}
    BY <2>1, FS_EmptySet
  <2>2. CASE S # {}
    <3>1. PICK v : S = {v}
      BY <1>1, <2>2
    <3> QED BY <3>1, FS_Singleton
  <2> QED BY <2>1, <2>2
<1>2. FeedbackInv => OneSendInFlight
  BY <1>1 DEF FeedbackInv, SendInv, PollInv, OneSendInFlight
<1> QED BY <1>2, FeedbackInvHolds, PTL

(* A report has one row and a failed row still has the payload to replay,  *)
(* through resends, merges, saves and restarts.                            *)
THEOREM RowsCorrect == Spec => []RowsReplayable
<1>1. FeedbackInv => RowsReplayable
  <2> SUFFICES ASSUME FeedbackInv PROVE RowsReplayable
    OBVIOUS
  <2>1. RowList(live.messages)
    BY StateFacts
  <2> QED BY <2>1, SeqFacts DEF RowList, RowsReplayable
<1> QED BY <1>1, FeedbackInvHolds, PTL

-----------------------------------------------------------------------------
(* The lock *)

LEMMA LockStep ==
  ASSUME FeedbackInv, LockInv, [Next]_vars
  PROVE  LockInv'
<1>1. CASE Capture
  BY <1>1 DEF Capture, LockInv
<1>2. CASE Commit
  <2>1. live'.sending = live.sending /\ UNCHANGED <<sends, stops>>
    BY <1>2, CommitFacts
  <2> QED BY <2>1 DEF LockInv
<1>3. CASE Edits
  <2>1. UNCHANGED <<live, sends, stops>>
    BY <1>3, EditFacts
  <2> QED BY <2>1 DEF LockInv
<1>4. CASE Send \/ \E x \in Ids : Resend(x)
  <2>1. layout /\ paint.sending = 0 /\ stops' = stops
    BY <1>4, StageFacts
  <2>2. PICK id \in Ids, b \in Bytes, fresh \in BOOLEAN, fb \in FB :
          Staged(fb, id, b, fresh) /\ Post(fb)
    BY <1>4, StageFacts
  <2>3. \/ \E w \in SendJobs : ~w.stopped /\ sends' = {w}
        \/ UNCHANGED <<live, sends>>
    BY <2>1, <2>2, PostFacts
  <2> QED BY <2>1, <2>3 DEF LockInv
<1>5. CASE RefreshStatus
  <2>1. live'.sending = live.sending /\ UNCHANGED <<sends, stops>>
    BY <1>5, RefreshFacts
  <2> QED BY <2>1 DEF LockInv
<1>6. CASE \/ OtherPublish \/ SaveLands \/ SaveFails
         \/ (\E id \in Ids : Answer(id))
         \/ \E w \in polls : FetchStatus(w)
  <2>1. UNCHANGED <<live, sends, stops>>
    BY <1>6 DEF OtherPublish, SaveLands, SaveFails, Answer, FetchStatus
  <2> QED BY <2>1 DEF LockInv
<1>7. CASE Stop
  BY <1>7 DEF Stop, LockInv
<1>8. ASSUME NEW w \in sends, SendWork(w)
      PROVE  LockInv'
  <2>1. CASE DropSend(w)
    BY <2>1 DEF DropSend, LockInv
  <2>2. w \in SendJobs
    BY DEF FeedbackInv, TypeInv
  <2>3. CASE Deliver(w)
    <3>1. PICK v : v = [w EXCEPT !.phase = "answer"]
      OBVIOUS
    <3>2. v.stopped = w.stopped
      BY <2>2, <3>1 DEF SendJobs
    <3>3. sends' = (sends \ {w}) \cup {v} /\ UNCHANGED <<live, stops>>
      BY <2>3, <3>1 DEF Deliver
    <3> QED BY <3>2, <3>3 DEF LockInv
  <2>4. CASE Classify(w)
    <3>1. PICK r : sends' = (sends \ {w}) \cup {[w EXCEPT !.phase = "done", !.result = r]}
      BY <2>4 DEF Classify
    <3>2. PICK v : v = [w EXCEPT !.phase = "done", !.result = r]
      OBVIOUS
    <3>3. v.stopped = w.stopped
      BY <2>2, <3>2 DEF SendJobs
    <3>4. sends' = (sends \ {w}) \cup {v} /\ UNCHANGED <<live, stops>>
      BY <2>4, <3>1, <3>2 DEF Classify
    <3> QED BY <3>3, <3>4 DEF LockInv
  <2> QED BY <1>8, <2>1, <2>3, <2>4 DEF SendWork
<1>9. ASSUME NEW w \in sends, SendLands(w)
      PROVE  LockInv'
  <2>1. /\ sends' = {} /\ stops' = stops
        /\ live.sending = w.id /\ w.id \in Ids
    BY <1>9, LandFacts DEF SendLands
  <2>2. live'.sending = 0
    BY <1>9, <2>1, LandFacts, ApplySendFacts DEF SendLands, FeedbackInv, TypeInv
  <2> QED BY <2>1, <2>2 DEF LockInv
<1>10. ASSUME NEW w \in polls, PollLands(w)
       PROVE  LockInv'
  <2>1. live'.sending = live.sending /\ UNCHANGED <<sends, stops>>
    BY <1>10, PollLandFacts DEF PollLands
  <2> QED BY <2>1 DEF LockInv
<1>11. CASE Restart
  <2>1. live'.sending = 0 /\ sends' = {} /\ stops' = stops
    BY <1>11, RestartFacts
  <2> QED BY <2>1 DEF LockInv
<1>12. CASE UNCHANGED vars
  BY <1>12 DEF vars, LockInv
<1> QED BY <1>1, <1>2, <1>3, <1>4, <1>5, <1>6, <1>7, <1>8, <1>9, <1>10, <1>11, <1>12, NextCases
        DEF Aside

(* As long as no Stop hit a worker, the lock on Send is held only while a  *)
(* worker sends that very report.                                          *)
THEOREM LockCorrect == Spec => [](stops = 0 => SendLockHasWorker)
<1>1. Init => LockInv
  BY NoRowList, FreshFacts DEF Init, LockInv
<1>2. FeedbackInv /\ LockInv /\ [Next]_vars => LockInv'
  BY LockStep
<1>3. FeedbackInv /\ LockInv => (stops = 0 => SendLockHasWorker)
  BY DEF FeedbackInv, SendInv, LockInv, SendLockHasWorker
<1> QED BY <1>1, <1>2, <1>3, FeedbackInvHolds, PTL DEF Spec

-----------------------------------------------------------------------------
(* The saves *)

LEMMA SavedStep ==
  ASSUME FeedbackInv, SavedInv, [Next]_vars
  PROVE  SavedInv'
<1>1. CASE Capture
  <2>1. /\ ~layout /\ layout' /\ base' = live /\ live' = live /\ paint'.messages = live.messages
        /\ unread' = unread /\ (unread => queued' = queued)
        /\ unread \/ IF live.dirty THEN SavedRows' = live.messages
                     ELSE SavedRows' = SavedRows /\ lost' = lost
    BY <1>1, CaptureFacts
  <2> QED BY <2>1 DEF SavedInv
<1>2. CASE Commit
  <2>1. /\ layout /\ ~layout'
        /\ live'.messages \in {live.messages, paint.messages}
        /\ \/ live'.messages = paint.messages /\ live'.dirty = paint.dirty
           \/ live'.dirty <=> (live.dirty \/ (paint.dirty /\ ~base.dirty))
        /\ UNCHANGED <<queued, disk, unread, lost>>
    BY <1>2, CommitFacts
  <2>2. SavedRows' = SavedRows
    BY <2>1 DEF SavedRows
  <2> QED BY <2>1, <2>2 DEF SavedInv
<1>3. CASE Edits
  <2>1. layout /\ UNCHANGED <<live, layout, base, queued, disk, unread, lost>>
    BY <1>3, EditFacts
  <2>2. /\ paint.dirty => paint'.dirty
        /\ paint'.dirty \/ paint'.messages = paint.messages
    BY <1>3, EditFacts DEF Edited
  <2>3. SavedRows' = SavedRows
    BY <2>1 DEF SavedRows
  <2> QED BY <2>1, <2>2, <2>3 DEF SavedInv
<1>4. CASE Send \/ \E x \in Ids : Resend(x)
  <2>1. layout /\ paint.sending = 0 /\ UNCHANGED <<layout, base, queued, disk, unread, lost>>
    BY <1>4, StageFacts
  <2>2. PICK id \in Ids, b \in Bytes, fresh \in BOOLEAN, fb \in FB :
          Staged(fb, id, b, fresh) /\ Post(fb)
    BY <1>4, StageFacts
  <2>3. /\ live'.messages = live.messages /\ live'.dirty = live.dirty
        /\ paint'.dirty
    BY <2>1, <2>2, PostFacts DEF Staged
  <2>4. SavedRows' = SavedRows
    BY <2>1 DEF SavedRows
  <2> QED BY <2>1, <2>3, <2>4 DEF SavedInv
<1>5. CASE RefreshStatus
  <2>1. /\ paint'.messages = paint.messages /\ paint'.dirty = paint.dirty
        /\ live'.messages = live.messages /\ live'.dirty = live.dirty
        /\ UNCHANGED <<layout, base, queued, disk, unread, lost>>
    BY <1>5, RefreshFacts
  <2>2. SavedRows' = SavedRows
    BY <2>1 DEF SavedRows
  <2> QED BY <2>1, <2>2 DEF SavedInv
<1>6. CASE Aside
  <2>1. /\ UNCHANGED <<live, layout, base, paint, unread>> /\ (queued'.some => queued.some)
        /\ lost' \/ (SavedRows' = SavedRows /\ lost' = lost)
    BY <1>6, AsideFacts
  <2> QED BY <2>1 DEF SavedInv
<1>7. ASSUME NEW w \in sends, SendLands(w)
      PROVE  SavedInv'
  <2>1. /\ UNCHANGED <<layout, base, paint, queued, disk, unread, lost>>
        /\ w.id \in Ids /\ ~Copy(live.messages, w.id, 0)
    BY <1>7, LandFacts DEF SendLands
  <2>2. /\ live.dirty => live'.dirty
        /\ live'.dirty \/ live'.messages = live.messages
    BY <1>7, <2>1, LandFacts, ApplySendFacts DEF SendLands, FeedbackInv, TypeInv
  <2>3. SavedRows' = SavedRows
    BY <2>1 DEF SavedRows
  <2> QED BY <2>1, <2>2, <2>3 DEF SavedInv
<1>8. ASSUME NEW w \in polls, PollLands(w)
      PROVE  SavedInv'
  <2>1. /\ live.dirty => live'.dirty
        /\ live'.dirty \/ live'.messages = live.messages
        /\ UNCHANGED <<layout, base, paint, queued, disk, unread, lost>>
    BY <1>8, PollLandFacts DEF PollLands
  <2>2. SavedRows' = SavedRows
    BY <2>1 DEF SavedRows
  <2> QED BY <2>1, <2>2 DEF SavedInv
<1>9. CASE Restart
  <2>1. /\ unread' \/ live'.messages = Loaded(disk)
        /\ ~layout' /\ queued' = Nothing /\ disk' = disk
    BY <1>9, RestartFacts
  <2>2. SavedRows' = disk /\ ~queued'.some
    BY <2>1 DEF SavedRows, Nothing
  <2>3. Loaded(Loaded(disk)) = Loaded(disk)
    BY StateFacts, LoadedFacts
  <2> QED BY <2>1, <2>2, <2>3 DEF SavedInv
<1>10. CASE UNCHANGED vars
  BY <1>10 DEF vars, SavedInv, SavedRows
<1> QED BY <1>1, <1>2, <1>3, <1>4, <1>5, <1>6, <1>7, <1>8, <1>9, <1>10, NextCases

(* No merge loses the flag for rows that no save has seen: what a restart  *)
(* would load is what the player sees, or a flush is due, or the write of  *)
(* the newest rows failed; and a history that did not load is never saved. *)
THEOREM SavesCorrect == Spec => []SavedOrDirty
<1>1. Init => SavedInv
  BY NoRowList, FreshFacts DEF Init, SavedInv, SavedRows, Nothing
<1>2. FeedbackInv /\ SavedInv /\ [Next]_vars => SavedInv'
  BY SavedStep
<1>3. SavedInv => SavedOrDirty
  BY DEF SavedInv, SavedRows, SavedOrDirty
<1> QED BY <1>1, <1>2, <1>3, FeedbackInvHolds, PTL DEF Spec

-----------------------------------------------------------------------------
(* One payload for an id *)

LEMMA OnceFacts ==
  ASSUME FeedbackInv, OnceInv
  PROVE  /\ \A x, b : Known(x, b) => x \in Ids /\ b \in Payloads /\ x <= minted
         /\ \A x, b : Seen(x, b) => x \in Ids /\ b \in Payloads /\ x <= minted
         /\ \A x, b : Known(x, b) => Traced(x)
         /\ \A x : Traced(x) => x \in Ids /\ x <= minted
         /\ \A w \in sends : Known(w.id, w.bytes)
         /\ \A x : Has(live.messages, x) <=> \E b \in Payloads : Copy(live.messages, x, b)
         /\ \A x : Has(paint.messages, x) <=> \E b \in Payloads : Copy(paint.messages, x, b)
<1>1. /\ RowList(live.messages) /\ RowList(paint.messages)
      /\ RowList(queued.rows) /\ RowList(disk)
      /\ \A w \in sends : w.id \in Ids /\ w.bytes \in Bytes
      /\ \A x, b : Copy(paint.messages, x, b) => x <= minted
  BY StateFacts
<1>2. ASSUME NEW x, NEW b, Known(x, b)
      PROVE  x \in Ids /\ b \in Payloads
  <2>1. <<x, b>> \in posted => x \in Ids /\ b \in Bytes
    BY DEF OnceInv, KnownInv
  <2> QED BY <1>1, <1>2, <2>1, CopyType DEF Known, Payloads
<1>3. \A x, b : Known(x, b) => x <= minted
  BY <1>2 DEF OnceInv, KnownInv
<1>4. \A x, b : Copy(paint.messages, x, b) => x \in Ids /\ b \in Payloads /\ x <= minted
  BY <1>1, CopyType
<1>5. \A x, b : Known(x, b) => Traced(x)
  BY <1>2 DEF Traced
<1>6. \A x : Traced(x) => x \in Ids /\ x <= minted
  BY <1>2, <1>3 DEF Traced
<1>7. \A w \in sends : Known(w.id, w.bytes)
  BY DEF Known
<1>8. \A x : Has(live.messages, x) <=> \E b \in Payloads : Copy(live.messages, x, b)
  BY <1>1, HasCopy
<1>9. \A x : Has(paint.messages, x) <=> \E b \in Payloads : Copy(paint.messages, x, b)
  BY <1>1, HasCopy
<1> QED BY <1>2, <1>3, <1>4, <1>5, <1>6, <1>7, <1>8, <1>9 DEF Seen

(* A step that shows no new payload keeps ids and payloads apart.          *)
LEMMA UniqueKept ==
  ASSUME OnceInv, \A x \in Ids, b \in Bytes : Seen(x, b)' => Seen(x, b)
  PROVE  UniqueInv'
BY DEF OnceInv, UniqueInv

LEMMA OnceCapture ==
  ASSUME FeedbackInv, OnceInv, Capture
  PROVE  OnceInv'
<1>1. /\ ~layout /\ layout' /\ live' = live /\ base' = live
      /\ paint'.messages = live.messages /\ paint'.draft = live.draft
      /\ \A x, b : Copy(queued'.rows, x, b) => Copy(queued.rows, x, b) \/ Copy(live.messages, x, b)
      /\ UNCHANGED <<minted, sends, disk, posted>>
  BY CaptureFacts
<1>2. \A x, b : Known(x, b)' => Known(x, b)
  BY <1>1 DEF Known
<1>3. \A x : Traced(x)' => Traced(x)
  BY <1>2 DEF Traced
<1>4. \A x, b : Seen(x, b)' => Seen(x, b)
  BY <1>1, <1>2 DEF Seen, Known
<1>5. UniqueInv'
  BY <1>4, UniqueKept
<1>6. KnownInv'
  BY <1>1, <1>2 DEF OnceInv, KnownInv
<1>7. ShownInv'
  BY <1>1, <1>3 DEF OnceInv, ShownInv
<1> QED BY <1>5, <1>6, <1>7 DEF OnceInv

LEMMA OnceCommit ==
  ASSUME FeedbackInv, OnceInv, Commit
  PROVE  OnceInv'
<1>1. /\ layout /\ ~layout' /\ live' \in FB /\ paint' = Fresh(<<>>)
      /\ live'.messages \in {live.messages, paint.messages}
      /\ \/ live'.draft = paint.draft
         \/ live'.draft = live.draft /\ paint.draft = base.draft
      /\ UNCHANGED <<minted, sends, queued, disk, unread, lost, posted>>
  BY CommitFacts
<1>2. \A x, b : ~Copy(paint'.messages, x, b)
  BY <1>1, NoRowList, FreshFacts
<1>3. \A x, b : Known(x, b)' => Seen(x, b)
  BY <1>1 DEF Known, Seen
<1>4. \A x, b : Seen(x, b)' => Seen(x, b)
  BY <1>2, <1>3 DEF Seen
<1>5. UniqueInv'
  BY <1>4, UniqueKept
<1>6. KnownInv'
  BY <1>1, <1>3, OnceFacts DEF OnceInv, KnownInv
<1>7. ASSUME NEW d, Traced(d)', d = live'.draft.id, live'.draft.step = "edit"
      PROVE  Has(live'.messages, d)
  <2>1. PICK b \in Payloads : Known(d, b)'
    BY <1>7 DEF Traced
  <2>2. CASE Copy(live'.messages, d, b)
    <3>1. RowList(live'.messages)
      BY <1>1, FBFacts
    <3> QED BY <2>2, <3>1, HasCopy
  <2>3. CASE ~Copy(live'.messages, d, b)
    <3>1. Known(d, b)
      BY <1>1, <2>1, <2>3 DEF Known
    <3>2. Traced(d)
      BY <3>1 DEF Traced
    <3>3. Has(paint.messages, d) /\ Has(live.messages, d)
      BY <1>1, <1>7, <3>2 DEF OnceInv, ShownInv
    <3> QED BY <1>1, <3>3
  <2> QED BY <2>2, <2>3
<1>8. (live.draft.step = "edit" /\ Traced(live.draft.id) => Has(live.messages, live.draft.id))'
  <2> SUFFICES ASSUME (live.draft.step = "edit" /\ Traced(live.draft.id))'
               PROVE  Has(live.messages, live.draft.id)'
    OBVIOUS
  <2>1. PICK d : d = live'.draft.id
    OBVIOUS
  <2>2. Traced(d)'
    BY <2>1 DEF Traced, Known
  <2>3. Has(live'.messages, d)
    BY <1>7, <2>1, <2>2
  <2> QED BY <2>1, <2>3 DEF Has
<1>9. ShownInv'
  BY <1>1, <1>8 DEF ShownInv
<1> QED BY <1>5, <1>6, <1>9 DEF OnceInv

LEMMA OnceEdits ==
  ASSUME FeedbackInv, OnceInv, ~MayDiscard, Edits
  PROVE  OnceInv'
<1>1. /\ layout
      /\ UNCHANGED <<live, layout, base, sends, queued, disk, unread, lost, posted>>
  BY EditFacts
<1>2. PICK fresh \in BOOLEAN :
        minted' = (IF fresh THEN minted + 1 ELSE minted) /\ Edited(paint', fresh)
  BY EditFacts
<1>3. /\ paint'.sending = paint.sending /\ RowList(paint'.messages)
      /\ \A x, c : Copy(paint'.messages, x, c) =>
           \/ Copy(paint.messages, x, c)
           \/ x = minted + 1 /\ c = 0 /\ paint'.draft.id # x
      /\ \/ paint'.draft = NoDraft
         \/ paint'.draft.id = minted + 1
         \/ /\ paint'.draft.id = paint.draft.id /\ paint'.draft.step = paint.draft.step
            /\ paint'.draft = paint.draft \/ paint.draft.step = "edit"
      /\ \/ paint'.draft.id = minted + 1
         \/ \A x : Has(paint.messages, x) => Has(paint'.messages, x)
  BY <1>2, FBFacts DEF Edited
<1>4. /\ minted \in Nat /\ minted <= minted'
      /\ live.draft.id # minted + 1 /\ base.draft.id # minted + 1
      /\ \A x : Traced(x) => x # minted + 1 /\ x # 0
      /\ \A w \in sends : w.id # minted + 1 /\ w.id # 0
      /\ \A x, b : Copy(paint.messages, x, b) => x # minted + 1
      /\ NoDraft.id = 0 /\ NoDraft.step = "closed"
  BY <1>2, RowsFacts, StateFacts, DraftFacts, OnceFacts, IdFacts
<1>5. \A x, b : Known(x, b)' <=> Known(x, b)
  BY <1>1 DEF Known
<1>6. \A x : Traced(x)' <=> Traced(x)
  BY <1>5 DEF Traced
<1>7. \A x : \A b \in Bytes : Seen(x, b)' => Seen(x, b)
  BY <1>3, <1>5, RowFacts DEF Seen
<1>8. UniqueInv'
  BY <1>7, UniqueKept
<1>9. KnownInv'
  <2>1. posted' \subseteq Ids \X Bytes
    BY <1>1 DEF OnceInv, KnownInv
  <2>2. ASSUME NEW x \in Ids, NEW b \in Payloads, Known(x, b)'
        PROVE  x <= minted'
    <3>1. x <= minted
      BY <1>5, <2>2, OnceFacts
    <3>2. x \in Nat
      BY IdFacts
    <3>3. minted' = minted \/ minted' = minted + 1
      BY <1>2
    <3> QED BY <1>4, <3>1, <3>2, <3>3
  <2> QED BY <2>1, <2>2 DEF KnownInv
<1>10. ASSUME paint'.draft.step = "edit", Traced(paint'.draft.id)
       PROVE  Has(paint'.messages, paint'.draft.id) /\ Has(live.messages, paint'.draft.id)
  <2>1. paint'.draft.id # minted + 1 /\ paint'.draft # NoDraft
    BY <1>4, <1>10
  <2>2. /\ paint'.draft.id = paint.draft.id /\ paint.draft.step = "edit"
        /\ \A x : Has(paint.messages, x) => Has(paint'.messages, x)
    BY <1>3, <1>10, <2>1
  <2> QED BY <1>1, <1>10, <2>2 DEF OnceInv, ShownInv
<1>11. ASSUME live.draft.step = "edit", Traced(live.draft.id), paint'.draft = base.draft
       PROVE  Has(paint'.messages, live.draft.id) /\ Has(live.messages, live.draft.id)
  <2>1. paint'.draft.id = live.draft.id
    BY <1>1, <1>11, RowsFacts DEF DraftInv
  <2>2. paint'.draft.id # minted + 1 /\ paint'.draft # NoDraft
    BY <1>4, <1>11, <2>1
  <2>3. /\ paint'.draft.id = paint.draft.id
        /\ paint'.draft = paint.draft \/ paint.draft.step = "edit"
        /\ \A x : Has(paint.messages, x) => Has(paint'.messages, x)
    BY <1>3, <2>2
  <2>4. Has(paint.messages, live.draft.id) /\ Has(live.messages, live.draft.id)
    BY <1>1, <1>11, <2>1, <2>3 DEF OnceInv, ShownInv
  <2> QED BY <2>3, <2>4
<1>12. ASSUME NEW w \in sends, paint'.draft.id = w.id, Has(live.messages, w.id)
       PROVE  Has(paint'.messages, w.id)
  <2>1. /\ paint'.draft.id = paint.draft.id
        /\ \A x : Has(paint.messages, x) => Has(paint'.messages, x)
    BY <1>3, <1>4, <1>12
  <2> QED BY <1>1, <1>12, <2>1 DEF OnceInv, ShownInv
<1>13. ASSUME paint.sending = 0, Has(paint'.messages, paint'.draft.id),
              ~Has(live.messages, paint'.draft.id)
       PROVE  paint'.draft.step = "edit"
  <2>1. PICK c \in Payloads : Copy(paint'.messages, paint'.draft.id, c)
    BY <1>3, <1>13, HasCopy
  <2>2. Copy(paint.messages, paint'.draft.id, c)
    BY <1>3, <2>1
  <2>3. Has(paint.messages, paint'.draft.id) /\ paint'.draft.id # minted + 1 /\ paint'.draft # NoDraft
    BY <1>4, <2>2, OnceFacts, CopyType, StateFacts, IdFacts
  <2>4. paint'.draft.id = paint.draft.id /\ paint'.draft.step = paint.draft.step
    BY <1>3, <2>3
  <2> QED BY <1>1, <1>13, <2>3, <2>4 DEF OnceInv, ShownInv
<1>14. ShownInv'
  BY <1>1, <1>3, <1>6, <1>10, <1>11, <1>12, <1>13 DEF ShownInv
<1> QED BY <1>8, <1>9, <1>14 DEF OnceInv

LEMMA OnceStage ==
  ASSUME FeedbackInv, OnceInv, Send \/ \E x \in Ids : Resend(x)
  PROVE  OnceInv'
<1>1. /\ layout /\ paint.sending = 0
      /\ UNCHANGED <<layout, base, queued, disk, unread, lost, posted>>
  BY StageFacts
<1>2. PICK id \in Ids, b \in Bytes, fresh \in BOOLEAN, fb \in FB :
        /\ minted' = IF fresh THEN minted + 1 ELSE minted
        /\ id <= minted' /\ minted' <= MaxIds
        /\ Staged(fb, id, b, fresh)
        /\ Post(fb)
  BY StageFacts
<1>3. /\ fb.sending = id /\ id # 0 /\ Has(fb.messages, id) /\ RowList(fb.messages)
      /\ \A x, c : Copy(fb.messages, x, c) => (x = id /\ c = b) \/ (x # id /\ Copy(paint.messages, x, c))
      /\ \A x : Has(paint.messages, x) =>
           Has(fb.messages, x) \/ (x = paint.draft.id /\ fb.draft.id = minted + 1)
      /\ \/ fb.draft = paint.draft /\ paint.draft.id # id
         \/ fb.draft.id = id /\ fb.draft.step = "sending" /\ (fresh \/ paint.draft.id = id)
      /\ \/ id = minted + 1
         \/ Copy(paint.messages, id, b)
         \/ id = paint.draft.id /\ paint.draft.step = "edit" /\ ~Has(paint.messages, id)
      /\ fresh => id = minted + 1
  BY <1>2, IdFacts, FBFacts DEF Staged
<1>4. /\ minted \in Nat /\ minted <= minted' /\ paint.draft.id # minted + 1
      /\ \A x, c : Seen(x, c) => x # minted + 1 /\ x \in Ids
      /\ \A x : Traced(x) => x # minted + 1
      /\ sends = {} /\ live.draft = base.draft
  <2>1. /\ minted \in Nat /\ minted <= minted' /\ paint.draft.id # minted + 1
        /\ \A x, c : Seen(x, c) => x # minted + 1 /\ x \in Ids
        /\ \A x : Traced(x) => x # minted + 1
    BY <1>2, RowsFacts, StateFacts, DraftFacts, OnceFacts, IdFacts
  <2>2. \A w \in sends : w.id \in Ids /\ w.id = 0
    BY <1>1, RowsFacts DEF FeedbackInv, SendInv
  <2>3. live.draft = base.draft
    BY <1>1, RowsFacts DEF DraftInv
  <2> QED BY <2>1, <2>2, <2>3, IdFacts
<1>5. \A c \in Bytes : Seen(id, c) => c = b
  <2>1. CASE id = minted + 1
    BY <1>4, <2>1
  <2>2. CASE Copy(paint.messages, id, b)
    BY <2>2 DEF OnceInv, UniqueInv, Seen
  <2>3. CASE id = paint.draft.id /\ paint.draft.step = "edit" /\ ~Has(paint.messages, id)
    <3>1. ~Traced(id)
      BY <1>1, <2>3 DEF OnceInv, ShownInv
    <3>2. \A c : ~Known(id, c) /\ ~Copy(paint.messages, id, c)
      BY <2>3, <3>1, OnceFacts, CopyType, StateFacts
    <3> QED BY <3>2 DEF Seen
  <2> QED BY <1>3, <2>1, <2>2, <2>3
<1>6. ASSUME Traced(id), fb.draft.id = id
      PROVE  Has(live.messages, id)
  <2>1. id # minted + 1 /\ paint.draft.id = id
    BY <1>3, <1>4, <1>6
  <2>2. CASE Copy(paint.messages, id, b)
    <3>1. Has(paint.messages, id)
      BY <1>2, <2>2, OnceFacts DEF Payloads
    <3> QED BY <1>1, <1>6, <2>1, <3>1 DEF OnceInv, ShownInv
  <2>3. CASE paint.draft.step = "edit" /\ ~Has(paint.messages, id)
    BY <1>1, <1>6, <2>1, <2>3 DEF OnceInv, ShownInv
  <2> QED BY <1>3, <2>1, <2>2, <2>3
<1>7. ASSUME paint.draft.id # id, fb.draft = paint.draft, fb.draft.step = "edit", Traced(fb.draft.id)
      PROVE  Has(fb.messages, fb.draft.id) /\ Has(live.messages, fb.draft.id)
  BY <1>1, <1>3, <1>4, <1>7 DEF OnceInv, ShownInv
<1>8. \/ /\ paint' = fb /\ live'.messages = live.messages /\ live'.draft = live.draft
         /\ \E w \in SendJobs : w.id = id /\ w.bytes = b /\ sends' = {w}
      \/ /\ \A x, c : Copy(paint'.messages, x, c) <=> Copy(fb.messages, x, c)
         /\ \A x : Has(paint'.messages, x) <=> Has(fb.messages, x)
         /\ paint'.draft.id = fb.draft.id
         /\ IF fb.draft.id = id THEN paint'.draft.step = "edit" ELSE paint'.draft = fb.draft
         /\ UNCHANGED <<live, sends>>
  BY <1>1, <1>2, PostFacts
<1>9. /\ live'.messages = live.messages /\ live'.draft = live.draft
      /\ \A x, c : Copy(paint'.messages, x, c) <=> Copy(fb.messages, x, c)
      /\ \A x : Has(paint'.messages, x) <=> Has(fb.messages, x)
      /\ paint'.draft.id = fb.draft.id
      /\ \A w \in sends' : w.id = id /\ w.bytes = b
  BY <1>4, <1>8
<1>10. \A x, c : Known(x, c)' => Known(x, c) \/ (x = id /\ c = b)
  BY <1>1, <1>9 DEF Known
<1>11. \A x : Traced(x)' => Traced(x) \/ x = id
  BY <1>10 DEF Traced
<1>12. UniqueInv'
  <2>1. \A x, c : Seen(x, c)' => Seen(x, c) \/ (x = id /\ c = b)
    BY <1>3, <1>9, <1>10 DEF Seen
  <2> QED BY <1>5, <2>1 DEF OnceInv, UniqueInv
<1>13. KnownInv'
  <2>1. posted' \subseteq Ids \X Bytes
    BY <1>1 DEF OnceInv, KnownInv
  <2>2. \A x \in Ids, c \in Payloads : Known(x, c)' => x <= minted'
    BY <1>2, <1>4, <1>10, OnceFacts, IdFacts
  <2> QED BY <2>1, <2>2 DEF KnownInv
<1>14. ASSUME NEW d, Traced(d)', d = paint'.draft.id, paint'.draft.step = "edit"
       PROVE  Has(paint'.messages, d) /\ Has(live'.messages, d)
  <2>1. CASE fb.draft.id = id
    <3>1. ~(paint' = fb)
      BY <1>3, <1>14, <2>1
    <3>2. UNCHANGED <<live, sends>>
      BY <1>8, <3>1
    <3>3. \A x, c : Known(x, c)' => Known(x, c)
      BY <1>1, <3>2 DEF Known
    <3>4. Traced(id)
      BY <1>9, <1>14, <2>1, <3>3 DEF Traced
    <3>5. d = id /\ Has(live.messages, id)
      BY <1>6, <1>9, <1>14, <2>1, <3>4
    <3> QED BY <1>3, <1>9, <3>5
  <2>2. CASE fb.draft.id # id
    <3>1. fb.draft = paint.draft /\ paint'.draft = fb.draft
      BY <1>3, <1>8, <2>2
    <3>2. Traced(fb.draft.id)
      BY <1>11, <1>14, <2>2, <3>1
    <3> QED BY <1>7, <1>9, <1>14, <2>2, <3>1, <3>2
  <2> QED BY <2>1, <2>2
<1>15. ASSUME NEW w \in sends', paint'.draft.id = w.id
       PROVE  Has(paint'.messages, w.id)
  BY <1>3, <1>9
<1>16. ASSUME paint'.sending = 0, Has(paint'.messages, paint'.draft.id),
              ~Has(live'.messages, paint'.draft.id)
       PROVE  paint'.draft.step = "edit"
  <2>1. CASE fb.draft.id = id
    BY <1>3, <1>8, <1>16, <2>1
  <2>2. CASE fb.draft.id # id
    <3>1. fb.draft = paint.draft /\ paint'.draft = fb.draft
      BY <1>3, <1>8, <2>2
    <3>2. PICK c \in Payloads : Copy(fb.messages, fb.draft.id, c)
      BY <1>3, <1>9, <1>16, HasCopy
    <3>3. Copy(paint.messages, paint.draft.id, c)
      BY <1>3, <2>2, <3>1, <3>2
    <3>4. Has(paint.messages, paint.draft.id)
      BY <3>3, OnceFacts
    <3> QED BY <1>1, <1>9, <1>16, <3>1, <3>4 DEF OnceInv, ShownInv
  <2> QED BY <2>1, <2>2
<1>17. ShownInv'
  <2>1. layout' /\ base' = base
    BY <1>1
  <2>2. live'.draft = base'.draft
    BY <1>4, <1>9, <2>1
  <2>3. (paint.draft.step = "edit" /\ Traced(paint.draft.id) =>
           Has(paint.messages, paint.draft.id) /\ Has(live.messages, paint.draft.id))'
    <3> SUFFICES ASSUME (paint.draft.step = "edit" /\ Traced(paint.draft.id))'
                 PROVE  (Has(paint.messages, paint.draft.id) /\ Has(live.messages, paint.draft.id))'
      OBVIOUS
    <3>1. PICK d : d = paint'.draft.id
      OBVIOUS
    <3>2. Traced(d)'
      BY <3>1 DEF Traced, Known
    <3>3. Has(paint'.messages, d) /\ Has(live'.messages, d)
      BY <1>14, <3>1, <3>2
    <3> QED BY <3>1, <3>3 DEF Has
  <2> QED BY <1>15, <1>16, <2>1, <2>2, <2>3 DEF ShownInv
<1> QED BY <1>12, <1>13, <1>17 DEF OnceInv

(* A step that leaves the rows' payloads and the drafts as they are.       *)
LEMMA OnceKept ==
  ASSUME FeedbackInv, OnceInv,
         UNCHANGED <<layout, base, minted>>,
         live'.draft = live.draft, paint'.draft = paint.draft, paint'.sending = paint.sending,
         \A x, b : Copy(live'.messages, x, b) <=> Copy(live.messages, x, b),
         \A x : Has(live'.messages, x) <=> Has(live.messages, x),
         paint'.messages = paint.messages,
         \A x, b : Copy(queued'.rows, x, b) \/ Copy(disk', x, b) =>
                     Copy(queued.rows, x, b) \/ Copy(disk, x, b),
         posted' \subseteq posted \cup {<<w.id, w.bytes>> : w \in sends},
         \A v \in sends' : \E w \in sends : v.id = w.id /\ v.bytes = w.bytes
  PROVE  OnceInv'
<1>1. \A x, b : <<x, b>> \in posted' => <<x, b>> \in posted \/ \E w \in sends : w.id = x /\ w.bytes = b
  <2> SUFFICES ASSUME NEW x, NEW b, <<x, b>> \in {<<w.id, w.bytes>> : w \in sends}
               PROVE  \E w \in sends : w.id = x /\ w.bytes = b
    OBVIOUS
  <2>1. PICK w \in sends : <<x, b>> = <<w.id, w.bytes>>
    OBVIOUS
  <2> QED BY <2>1
<1>2. \A x, b : Known(x, b)' => Known(x, b)
  BY <1>1 DEF Known
<1>3. \A x : Traced(x)' => Traced(x)
  BY <1>2 DEF Traced
<1>4. UniqueInv'
  BY <1>2, UniqueKept DEF Seen
<1>5. KnownInv'
  <2>1. {<<w.id, w.bytes>> : w \in sends} \subseteq Ids \X Bytes
    BY StateFacts
  <2> QED BY <1>2, <2>1 DEF OnceInv, KnownInv
<1>6. ShownInv'
  BY <1>3 DEF OnceInv, ShownInv
<1> QED BY <1>4, <1>5, <1>6 DEF OnceInv

LEMMA OnceLand ==
  ASSUME FeedbackInv, OnceInv, NEW w \in sends, SendLands(w)
  PROVE  OnceInv'
<1>1. /\ w.id \in Ids /\ w.id <= minted /\ live.sending = w.id
      /\ ~Copy(live.messages, w.id, 0)
      /\ layout => paint.sending # 0
      /\ sends' = {}
      /\ UNCHANGED <<layout, base, paint, minted, queued, disk, unread, lost, posted>>
  BY LandFacts DEF SendLands
<1>2. PICK status \in Outcomes : live' = ApplySendResult(live, w.id, status)
  BY LandFacts DEF SendLands
<1>3. live \in FB
  BY DEF FeedbackInv, TypeInv
<1>4. /\ live'.draft.id = live.draft.id
      /\ live'.draft = live.draft \/ (live.draft.id = w.id /\ Has(live.messages, w.id))
  BY <1>1, <1>2, <1>3, ApplySendFacts
<1>5. \A x, c : Copy(live'.messages, x, c) => Copy(live.messages, x, c) \/ (x = w.id /\ c = 0)
  <2>1. ASSUME NEW x, NEW c, Copy(ApplySendResult(live, w.id, status).messages, x, c)
        PROVE  Copy(live.messages, x, c) \/ (x = w.id /\ c = 0)
    BY <1>1, <1>3, <2>1, ApplySendFacts
  <2> QED BY <1>2, <2>1
<1>6. \A x : Has(live'.messages, x) <=> Has(live.messages, x)
  <2>1. \A x : Has(ApplySendResult(live, w.id, status).messages, x) <=> Has(live.messages, x)
    BY <1>1, <1>3, ApplySendFacts
  <2> QED BY <1>2, <2>1
<1>7. \A x, c : Known(x, c)' => Known(x, c) \/ (x = w.id /\ c = 0)
  BY <1>1, <1>5 DEF Known
<1>8. \A x : Traced(x)' => Traced(x)
  BY <1>7, OnceFacts DEF Traced
<1>9. UniqueInv'
  <2>1. \A x : \A b \in Bytes : Seen(x, b)' => Seen(x, b)
    BY <1>1, <1>7, RowFacts DEF Seen
  <2> QED BY <2>1, UniqueKept
<1>10. KnownInv'
  BY <1>1, <1>7 DEF OnceInv, KnownInv
<1>11. ASSUME layout, live'.draft.step = "edit", Traced(live'.draft.id), paint.draft = base.draft
       PROVE  Has(paint.messages, live'.draft.id) /\ Has(live.messages, live'.draft.id)
  <2>1. CASE live'.draft = live.draft
    BY <1>11, <2>1 DEF OnceInv, ShownInv
  <2>2. CASE live.draft.id = w.id /\ Has(live.messages, w.id)
    <3>1. base.draft.id = live.draft.id
      BY <1>11, RowsFacts DEF DraftInv
    <3>2. Has(paint.messages, w.id)
      BY <1>11, <2>2, <3>1 DEF OnceInv, ShownInv
    <3> QED BY <1>4, <2>2, <3>2
  <2> QED BY <1>4, <2>1, <2>2
<1>12. ASSUME ~layout, live'.draft.step = "edit", Traced(live'.draft.id)
       PROVE  Has(live.messages, live'.draft.id)
  <2>1. CASE live'.draft = live.draft
    BY <1>12, <2>1 DEF OnceInv, ShownInv
  <2>2. CASE live.draft.id = w.id /\ Has(live.messages, w.id)
    BY <1>4, <2>2
  <2> QED BY <1>4, <2>1, <2>2
<1>13. ShownInv'
  <2>1. layout /\ paint.draft.step = "edit" /\ Traced(paint.draft.id) =>
          Has(paint.messages, paint.draft.id) /\ Has(live.messages, paint.draft.id)
    BY DEF OnceInv, ShownInv
  <2> QED BY <1>1, <1>6, <1>8, <1>11, <1>12, <2>1 DEF ShownInv
<1> QED BY <1>9, <1>10, <1>13 DEF OnceInv

LEMMA OnceStep ==
  ASSUME FeedbackInv, OnceInv, ~MayDiscard, [Next]_vars
  PROVE  OnceInv'
<1>1. CASE Capture
  BY <1>1, OnceCapture
<1>2. CASE Commit
  BY <1>2, OnceCommit
<1>3. CASE Edits
  BY <1>3, OnceEdits
<1>4. CASE Send \/ \E x \in Ids : Resend(x)
  BY <1>4, OnceStage
<1>5. CASE RefreshStatus
  <2>1. /\ paint'.messages = paint.messages /\ paint'.draft = paint.draft
        /\ paint'.sending = paint.sending
        /\ live'.messages = live.messages /\ live'.draft = live.draft
        /\ UNCHANGED <<layout, base, minted, sends, queued, disk, unread, lost, posted>>
    BY <1>5, RefreshFacts
  <2> QED BY <2>1, OnceKept
<1>6. CASE Aside
  <2>1. /\ UNCHANGED <<live, layout, base, paint, minted>>
        /\ \A x, b : Copy(queued'.rows, x, b) \/ Copy(disk', x, b) =>
                       Copy(queued.rows, x, b) \/ Copy(disk, x, b)
        /\ posted' \subseteq posted \cup {<<w.id, w.bytes>> : w \in sends}
        /\ \A v \in sends' : \E w \in sends : v.id = w.id /\ v.bytes = w.bytes
    BY <1>6, AsideFacts DEF SendsGoOn
  <2> QED BY <2>1, OnceKept
<1>7. ASSUME NEW w \in sends, SendLands(w)
      PROVE  OnceInv'
  BY <1>7, OnceLand
<1>8. ASSUME NEW w \in polls, PollLands(w)
      PROVE  OnceInv'
  <2>1. /\ live'.draft = live.draft
        /\ \A x, c : Copy(live'.messages, x, c) <=> Copy(live.messages, x, c)
        /\ \A x : Has(live'.messages, x) <=> Has(live.messages, x)
        /\ UNCHANGED <<layout, base, paint, minted, sends, queued, disk, unread, lost, posted>>
    BY <1>8, PollLandFacts DEF PollLands
  <2> QED BY <2>1, OnceKept
<1>9. CASE Restart
  <2>1. /\ live'.draft = NoDraft /\ ~layout' /\ sends' = {}
        /\ \A x, b : Copy(live'.messages, x, b) => Copy(disk, x, b)
        /\ paint' = Fresh(<<>>) /\ queued' = Nothing
        /\ UNCHANGED <<minted, disk, posted>>
    BY <1>9, RestartFacts
  <2>2. /\ \A x, b : ~Copy(Nothing.rows, x, b)
        /\ \A x, b : ~Copy(Fresh(<<>>).messages, x, b)
        /\ NoDraft.step = "closed"
    BY NoRowList, FreshFacts, RowsFacts DEF Nothing
  <2>3. \A x, b : Known(x, b)' => Known(x, b)
    BY <2>1, <2>2 DEF Known
  <2>4. UniqueInv'
    BY <2>1, <2>2, <2>3, UniqueKept DEF Seen
  <2>5. KnownInv'
    BY <2>1, <2>3 DEF OnceInv, KnownInv
  <2>6. ShownInv'
    BY <2>1, <2>2 DEF ShownInv
  <2> QED BY <2>4, <2>5, <2>6 DEF OnceInv
<1>10. CASE UNCHANGED vars
  <2>1. UNCHANGED <<live, layout, base, paint, minted, sends, queued, disk, unread, lost, posted>>
    BY <1>10 DEF vars
  <2> QED BY <2>1, OnceKept
<1> QED BY <1>1, <1>2, <1>3, <1>4, <1>5, <1>6, <1>7, <1>8, <1>9, <1>10, NextCases

(* While failed rows are kept, no report id goes out with two payloads:    *)
(* the server keeps the first, so a second would be lost while the player  *)
(* is told it was received.                                                *)
THEOREM OnceCorrect ==
  ASSUME ~MayDiscard
  PROVE  Spec => []OnePayloadPerId
<1>1. Init => OnceInv
  <2> SUFFICES ASSUME Init PROVE OnceInv
    OBVIOUS
  <2>1. Fresh(<<>>).messages = <<>> /\ Fresh(<<>>).draft = NoDraft /\ NoDraft.step = "closed"
    BY NoRowList, FreshFacts DEF NoDraft
  <2>2. \A x, b : ~Known(x, b) /\ ~Copy(paint.messages, x, b)
    BY <2>1, NoRowList DEF Init, Known, Nothing
  <2>3. posted = {} /\ sends = {} /\ layout = FALSE /\ live.draft.step = "closed"
    BY <2>1 DEF Init
  <2> QED BY <2>2, <2>3 DEF OnceInv, UniqueInv, KnownInv, ShownInv, Seen
<1>2. FeedbackInv /\ OnceInv /\ [Next]_vars => OnceInv'
  BY OnceStep
<1>3. OnceInv => OnePayloadPerId
  <2> SUFFICES ASSUME OnceInv, NEW x \in posted, NEW y \in posted, x[1] = y[1]
               PROVE  x = y
    BY DEF OnePayloadPerId
  <2>1. x \in Ids \X Bytes /\ y \in Ids \X Bytes
    BY DEF OnceInv, KnownInv
  <2>2. /\ x = <<x[1], x[2]>> /\ y = <<y[1], y[2]>>
        /\ x[1] \in Ids /\ x[2] \in Bytes /\ y[2] \in Bytes
    BY <2>1
  <2>3. Seen(x[1], x[2]) /\ Seen(x[1], y[2])
    BY <2>2 DEF Seen, Known
  <2>4. x[2] = y[2]
    BY <2>2, <2>3 DEF OnceInv, UniqueInv
  <2> QED BY <2>2, <2>4
<1> QED BY <1>1, <1>2, <1>3, FeedbackInvHolds, PTL DEF Spec
=============================================================================
