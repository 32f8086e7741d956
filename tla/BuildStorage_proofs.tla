------------------------ MODULE BuildStorage_proofs ------------------------
(***************************************************************************)
(* Proofs about BuildStorage with at most one caller that overwrites, for  *)
(* any number of savers, deleters, names, files and deaths.                *)
(***************************************************************************)
EXTENDS BuildStorage, TLAPS

OneOverwriter == \A c, d \in Overwriters : c = d

Open == {"write", "flush", "publish", "look", "unlink", "relink", "move", "replace"}
Complete == Open \ {"write", "flush"}

CallRecord ==
    [op : {"none", "new", "overwrite", "delete"}, name : Names \cup {"none"},
     build : Builds \cup {NoBuild},
     at : Open \cup {"idle", "check", "create", "erase", "reply"},
     file : Inodes \cup {Gone}, mixed : BOOLEAN,
     answer : {"none", "ok", "taken", "missing", "error"}]

VolumeType ==
    /\ json \in [Names -> Inodes \cup {Gone}]
    /\ tmp \in [Names -> Inodes \cup {Gone}]
    /\ data \in [Inodes -> [text : Builds \cup {"empty", "torn"}, flushed : BOOLEAN]]
    /\ call \in [Callers -> CallRecord]

(* A call holds a file from its creation to its answer, and never one that *)
(* another writer has open.                                                *)
CallOK(c, x) ==
    /\ x.op = "overwrite" => c \in Overwriters
    /\ x.op # "none" => x.name \in Names
    /\ x.at # "idle" => x.op # "none"
    /\ x.at = "check" => x.op = "delete" \/ (x.op = "overwrite" /\ x.build \in Builds)
    /\ x.at \in Open \cup {"create"} => x.op \in {"new", "overwrite"} /\ x.build \in Builds
    /\ x.at \in Complete \ {"replace"} => x.op = "new"
    /\ x.at = "replace" => x.op = "overwrite"
    /\ x.file # Gone <=> x.at \in Open
    /\ ~x.mixed

(* No two names or calls share a file, but a build's <name>.tmp and the    *)
(* call that overwrites it.                                                *)
FilesApart ==
    /\ \A c, d \in Callers : c # d /\ call[c].file # Gone => call[c].file # call[d].file
    /\ \A c \in Callers : \A n \in Names : call[c].file # Gone => call[c].file # json[n]
    /\ \A c \in Callers : \A n \in Names :
         call[c].file # Gone /\ call[c].file = tmp[n] =>
           call[c].op = "overwrite" /\ call[c].name = n
    /\ \A c \in Callers : call[c].file # Gone /\ call[c].op = "overwrite" =>
                            call[c].file = tmp[call[c].name]
    /\ \A m, n \in Names : tmp[m] # Gone => tmp[m] # json[n]
    /\ \A m, n \in Names : m # n /\ tmp[m] # Gone => tmp[m] # tmp[n]

(* From its flush to its answer a call's file holds its build. *)
StagedWhole ==
    \A c \in Callers : call[c].at \in Complete =>
      data[call[c].file].text = call[c].build /\ data[call[c].file].flushed

(* A name stands for a file that is on disk: a build, or empty as version  *)
(* 1.7.0 left it.                                                          *)
NamedText ==
    \A n \in Names : json[n] # Gone => InFile(n) \in Builds \cup {"empty"} /\ data[json[n]].flushed

NamesWhole == WholeFiles /\ NamedText

WholeInv ==
    /\ VolumeType
    /\ \A c \in Callers : CallOK(c, call[c])
    /\ FilesApart
    /\ StagedWhole
    /\ NamesWhole

-----------------------------------------------------------------------------

(* A step in which one call goes on, or is over, and no file is written:   *)
(* names may only lose their files.                                        *)
LEMMA QuietStep ==
  ASSUME WholeInv, NEW c \in Callers, NEW r \in CallRecord, CallOK(c, r),
         call' = [call EXCEPT ![c] = r],
         r.file = Gone \/ /\ r.file = call[c].file /\ r.op = call[c].op /\ r.name = call[c].name
                          /\ r.build = call[c].build
                          /\ r.at \in Complete => call[c].at \in Complete,
         json' \in [Names -> Inodes \cup {Gone}],
         \A n \in Names : json'[n] = json[n] \/ json'[n] = Gone,
         UNCHANGED <<tmp, data, odd>>
  PROVE  WholeInv'
<1>1. /\ call'[c] = r
      /\ \A d \in Callers : d # c => call'[d] = call[d]
  BY DEF WholeInv, VolumeType
<1>2. VolumeType'
  BY DEF WholeInv, VolumeType
<1>3. (\A d \in Callers : CallOK(d, call[d]))'
  BY <1>1 DEF WholeInv, CallOK
<1>4. \A d \in Callers : call'[d].file # Gone =>
        /\ call'[d].file = call[d].file /\ call'[d].op = call[d].op
        /\ call'[d].name = call[d].name /\ call'[d].build = call[d].build
        /\ call'[d].at \in Complete => call[d].at \in Complete
  BY <1>1
<1>5. FilesApart'
  BY <1>4 DEF WholeInv, FilesApart
<1>6. StagedWhole'
  <2>1. \A d \in Callers : call'[d].at \in Complete => call'[d].file # Gone
    BY <1>3 DEF CallOK, Complete
  <2> QED BY <1>4, <2>1 DEF WholeInv, StagedWhole
<1>7. NamesWhole'
  BY DEF WholeInv, NamesWhole, NamedText, WholeFiles, InFile
<1> QED BY <1>2, <1>3, <1>5, <1>6, <1>7 DEF WholeInv

(* A complete file gets its name, and its call is answered. *)
LEMMA PublishStep ==
  ASSUME WholeInv, DistinctAssumption, NEW c \in Callers, call[c].at \in Complete,
         NEW r \in CallRecord, CallOK(c, r), r.file = Gone, r.at \notin Open,
         call' = [call EXCEPT ![c] = r],
         json' = [json EXCEPT ![Name(c)] = call[c].file],
         tmp' = IF call[c].op = "overwrite" THEN [tmp EXCEPT ![Name(c)] = Gone] ELSE tmp,
         UNCHANGED <<data, odd>>
  PROVE  WholeInv'
<1> DEFINE file == call[c].file
<1>1. /\ call'[c] = r
      /\ \A d \in Callers : d # c => call'[d] = call[d]
  BY DEF WholeInv, VolumeType
<1>2. file \in Inodes /\ file # Gone /\ call[c].build \in Builds /\ Name(c) \in Names
  BY DEF WholeInv, VolumeType, CallRecord, CallOK, Complete, Name
<1>3. VolumeType'
  BY <1>2 DEF WholeInv, VolumeType
<1>4. (\A d \in Callers : CallOK(d, call[d]))'
  BY <1>1 DEF WholeInv
<1>5. /\ \A n \in Names : json'[n] = IF n = Name(c) THEN file ELSE json[n]
      /\ \A n \in Names : tmp'[n] # Gone => tmp'[n] = tmp[n] /\ tmp'[n] # file
  <2>1. \A n \in Names : json'[n] = IF n = Name(c) THEN file ELSE json[n]
    BY DEF WholeInv, VolumeType
  <2>2. \A n \in Names : tmp'[n] # Gone => tmp'[n] = tmp[n] /\ tmp'[n] # file
    BY <1>2 DEF WholeInv, VolumeType, FilesApart, Name
  <2> QED BY <2>1, <2>2
<1>6. \A d \in Callers : call'[d].file # Gone => d # c /\ call'[d] = call[d] /\ call[d].file # file
  BY <1>1 DEF WholeInv, FilesApart
<1>7. FilesApart'
  <2>1. \A d \in Callers : call'[d].file # Gone /\ call'[d].op = "overwrite" =>
                             call'[d].file = tmp'[call'[d].name]
    <3> SUFFICES ASSUME NEW d \in Callers, call'[d].file # Gone, call'[d].op = "overwrite"
                 PROVE  call'[d].file = tmp'[call'[d].name]
      OBVIOUS
    <3>1. d # c /\ call'[d] = call[d] /\ call[d].file = tmp[call[d].name] /\ call[d].name \in Names
      BY <1>6 DEF WholeInv, FilesApart, CallOK
    <3>2. CASE call[c].op = "overwrite"
      <4>1. call[c].file = tmp[Name(c)]
        BY <1>2, <3>2 DEF WholeInv, FilesApart, Name
      <4>2. call[d].name # Name(c)
        BY <1>6, <3>1, <4>1
      <4> QED BY <3>1, <4>2 DEF WholeInv, VolumeType
    <3>3. CASE call[c].op # "overwrite"
      BY <3>1, <3>3
    <3> QED BY <3>2, <3>3
  <2>2. \A d, e \in Callers : d # e /\ call'[d].file # Gone => call'[d].file # call'[e].file
    BY <1>1, <1>6 DEF WholeInv, FilesApart
  <2>3. \A d \in Callers : \A n \in Names : call'[d].file # Gone => call'[d].file # json'[n]
    BY <1>5, <1>6 DEF WholeInv, FilesApart
  <2>4. \A d \in Callers : \A n \in Names : call'[d].file # Gone /\ call'[d].file = tmp'[n] =>
                                              call'[d].op = "overwrite" /\ call'[d].name = n
    BY <1>5, <1>6 DEF WholeInv, FilesApart
  <2>5. \A m, n \in Names : tmp'[m] # Gone => tmp'[m] # json'[n]
    BY <1>5 DEF WholeInv, FilesApart
  <2>6. \A m, n \in Names : m # n /\ tmp'[m] # Gone => tmp'[m] # tmp'[n]
    BY <1>5 DEF WholeInv, FilesApart
  <2> QED BY <2>1, <2>2, <2>3, <2>4, <2>5, <2>6 DEF FilesApart
<1>8. StagedWhole'
  BY <1>1, <1>4 DEF WholeInv, StagedWhole, Complete
<1>9. NamesWhole'
  BY <1>2, <1>5 DEF WholeInv, NamesWhole, NamedText, WholeFiles, InFile, StagedWhole
<1> QED BY <1>3, <1>4, <1>7, <1>8, <1>9 DEF WholeInv

Shared(i) == \E d \in Callers : call[d].file = i

(* A file is created: a new one, or the <name>.tmp a crash has left, which *)
(* nobody has open because only one caller overwrites.                     *)
LEMMA CreateStep ==
  ASSUME WholeInv, DistinctAssumption, OneOverwriter, NEW c \in Callers, Create(c)
  PROVE  WholeInv'
<1> DEFINE over == call[c].op = "overwrite"
<1>1. PICK i \in IF over /\ tmp[Name(c)] # Gone THEN {tmp[Name(c)]} ELSE Inodes \ Used :
        /\ data' = [data EXCEPT ![i] = [text |-> "empty", flushed |-> FALSE]]
        /\ tmp' = IF over THEN [tmp EXCEPT ![Name(c)] = i] ELSE tmp
        /\ call' = [d \in Callers |->
                      IF d = c THEN [call[c] EXCEPT !.file = i, !.mixed = Shared(i), !.at = "write"]
                      ELSE IF call[d].file = i THEN [call[d] EXCEPT !.mixed = TRUE] ELSE call[d]]
  BY DEF Create, Shared
<1>2. /\ call[c].at = "create" /\ json' = json /\ odd' = odd
      /\ call[c].op \in {"new", "overwrite"} /\ call[c].build \in Builds
      /\ Name(c) \in Names /\ call[c].file = Gone /\ ~call[c].mixed
      /\ (over => c \in Overwriters)
  BY DEF Create, WholeInv, CallOK, Name, Open
<1>3. i \in Inodes /\ i # Gone
  BY <1>1, <1>2 DEF DistinctAssumption, WholeInv, VolumeType
<1>4. \A d \in Callers : call[d].file # i
  <2>1. CASE over /\ tmp[Name(c)] # Gone
    <3> SUFFICES ASSUME NEW d \in Callers, call[d].file = i PROVE FALSE
      OBVIOUS
    <3>1. call[d].op = "overwrite"
      BY <1>1, <1>2, <1>3, <2>1 DEF WholeInv, FilesApart
    <3>2. d = c
      BY <1>2, <2>1, <3>1 DEF WholeInv, CallOK, OneOverwriter
    <3> QED BY <1>2, <1>3, <3>2
  <2>2. CASE ~(over /\ tmp[Name(c)] # Gone)
    BY <1>1, <2>2 DEF Used
  <2> QED BY <2>1, <2>2
<1>5. \A n \in Names : /\ json[n] # i
                       /\ tmp[n] = i => over /\ n = Name(c)
  <2>1. CASE over /\ tmp[Name(c)] # Gone
    <3>1. i = tmp[Name(c)]
      BY <1>1, <2>1
    <3>2. \A n \in Names : json[n] # i
      BY <1>2, <1>3, <3>1 DEF WholeInv, FilesApart
    <3>3. \A n \in Names : tmp[n] = i => n = Name(c)
      BY <1>2, <1>3, <3>1 DEF WholeInv, FilesApart
    <3> QED BY <2>1, <3>2, <3>3
  <2>2. CASE ~(over /\ tmp[Name(c)] # Gone)
    BY <1>1, <2>2 DEF Used
  <2> QED BY <2>1, <2>2
<1> DEFINE r == [call[c] EXCEPT !.file = i, !.mixed = FALSE, !.at = "write"]
<1>6. /\ r \in CallRecord /\ r.file = i /\ r.at = "write" /\ ~r.mixed
      /\ r.op = call[c].op /\ r.name = Name(c) /\ r.build = call[c].build
  <2>1. call[c] \in CallRecord
    BY DEF WholeInv, VolumeType
  <2> QED BY <1>3, <2>1 DEF CallRecord, Open, Name
<1>7. /\ call' \in [Callers -> CallRecord] /\ call'[c] = r
      /\ \A d \in Callers : d # c => call'[d] = call[d]
  <2>1. call' = [d \in Callers |-> IF d = c THEN r ELSE call[d]]
    <3>1. Shared(i) = FALSE
      BY <1>4 DEF Shared
    <3> QED BY <1>1, <1>4, <3>1
  <2> HIDE DEF r
  <2>2. call \in [Callers -> CallRecord]
    BY DEF WholeInv, VolumeType
  <2> QED BY <1>6, <2>1, <2>2
<1> HIDE DEF r
<1>8. \A n \in Names : tmp'[n] = IF over /\ n = Name(c) THEN i ELSE tmp[n]
  BY <1>1, <1>2 DEF WholeInv, VolumeType
<1>9. \A j \in Inodes : j # i => data'[j] = data[j]
  BY <1>1 DEF WholeInv, VolumeType
<1>10. VolumeType'
  BY <1>1, <1>2, <1>3, <1>7 DEF WholeInv, VolumeType
<1>11. (\A d \in Callers : CallOK(d, call[d]))'
  <2>1. CallOK(c, r)
    BY <1>2, <1>3, <1>6 DEF CallOK, Open, Complete
  <2> QED BY <1>7, <2>1 DEF WholeInv
<1>12. FilesApart'
  <2>1. \A d, e \in Callers : d # e /\ call'[d].file # Gone => call'[d].file # call'[e].file
    BY <1>4, <1>6, <1>7 DEF WholeInv, FilesApart
  <2>2. \A d \in Callers : \A n \in Names : call'[d].file # Gone => call'[d].file # json'[n]
    BY <1>2, <1>5, <1>6, <1>7 DEF WholeInv, FilesApart
  <2>3. \A d \in Callers : \A n \in Names : call'[d].file # Gone /\ call'[d].file = tmp'[n] =>
                                              call'[d].op = "overwrite" /\ call'[d].name = n
    BY <1>4, <1>5, <1>6, <1>7, <1>8 DEF WholeInv, FilesApart
  <2>4. \A d \in Callers : call'[d].file # Gone /\ call'[d].op = "overwrite" =>
                             call'[d].file = tmp'[call'[d].name]
    <3> SUFFICES ASSUME NEW d \in Callers, call'[d].file # Gone, call'[d].op = "overwrite"
                 PROVE  call'[d].file = tmp'[call'[d].name]
      OBVIOUS
    <3>1. CASE d = c
      BY <1>2, <1>6, <1>7, <1>8, <3>1
    <3>2. CASE d # c
      <4>1. call'[d] = call[d] /\ call[d].op = "overwrite" /\ call[d].name \in Names
        BY <1>7, <3>2 DEF WholeInv, CallOK
      <4>2. ~over
        BY <1>2, <3>2, <4>1 DEF WholeInv, CallOK, OneOverwriter
      <4> QED BY <1>8, <4>1, <4>2 DEF WholeInv, FilesApart
    <3> QED BY <3>1, <3>2
  <2>5. \A m, n \in Names : tmp'[m] # Gone => tmp'[m] # json'[n]
    BY <1>2, <1>5, <1>8 DEF WholeInv, FilesApart
  <2>6. \A m, n \in Names : m # n /\ tmp'[m] # Gone => tmp'[m] # tmp'[n]
    BY <1>5, <1>8 DEF WholeInv, FilesApart
  <2> QED BY <2>1, <2>2, <2>3, <2>4, <2>5, <2>6 DEF FilesApart
<1>13. StagedWhole'
  <2> SUFFICES ASSUME NEW d \in Callers, call'[d].at \in Complete
               PROVE  data'[call'[d].file].text = call'[d].build /\ data'[call'[d].file].flushed
    BY DEF StagedWhole
  <2>1. d # c /\ call'[d] = call[d]
    BY <1>6, <1>7 DEF Complete
  <2>2. call[d].file \in Inodes
    BY <2>1 DEF WholeInv, VolumeType, CallOK, CallRecord, Complete
  <2> QED BY <1>4, <1>9, <2>1, <2>2 DEF WholeInv, StagedWhole
<1>14. NamesWhole'
  BY <1>2, <1>5, <1>9 DEF WholeInv, VolumeType, NamesWhole, NamedText, WholeFiles, InFile
<1> QED BY <1>10, <1>11, <1>12, <1>13, <1>14 DEF WholeInv

(* A call writes to its own file. *)
LEMMA WriteStep ==
  ASSUME WholeInv, NEW c \in Callers, call[c].at \in {"write", "flush"},
         NEW pc \in {"flush", "publish", "replace"}, Goto(c, pc),
         pc = "publish" => call[c].op = "new", pc = "replace" => call[c].op = "overwrite",
         NEW row \in [text : Builds \cup {"empty", "torn"}, flushed : BOOLEAN],
         pc # "flush" => row = Flushed(call[c].build),
         data' = [data EXCEPT ![call[c].file] = row],
         UNCHANGED <<json, tmp, odd>>
  PROVE  WholeInv'
<1> DEFINE file == call[c].file
           r == [call[c] EXCEPT !.at = pc]
<1>1. /\ call[c] \in CallRecord /\ CallOK(c, call[c])
      /\ file \in Inodes /\ file # Gone
  BY DEF WholeInv, VolumeType, CallRecord, CallOK, Open
<1>2. /\ r \in CallRecord /\ r.file = file /\ r.at = pc /\ r.op = call[c].op
      /\ r.name = call[c].name /\ r.build = call[c].build /\ r.mixed = call[c].mixed
  BY <1>1 DEF CallRecord, Open
<1>3. call' = [call EXCEPT ![c] = r]
  BY DEF Goto
<1> HIDE DEF r
<1>4. /\ call'[c] = r /\ \A d \in Callers : d # c => call'[d] = call[d]
      /\ call' \in [Callers -> CallRecord]
  BY <1>2, <1>3 DEF WholeInv, VolumeType
<1>5. \A i \in Inodes : data'[i] = IF i = file THEN row ELSE data[i]
  BY DEF WholeInv, VolumeType
<1>6. VolumeType'
  BY <1>1, <1>4 DEF WholeInv, VolumeType
<1>7. (\A d \in Callers : CallOK(d, call[d]))'
  <2>1. CallOK(c, r)
    BY <1>1, <1>2 DEF CallOK, Open, Complete
  <2> QED BY <1>4, <2>1 DEF WholeInv
<1>8. FilesApart'
  <2>1. \A d \in Callers : /\ call'[d].file = call[d].file /\ call'[d].op = call[d].op
                           /\ call'[d].name = call[d].name
    BY <1>2, <1>4
  <2> QED BY <2>1 DEF WholeInv, FilesApart
<1>9. StagedWhole'
  <2> SUFFICES ASSUME NEW d \in Callers, call'[d].at \in Complete
               PROVE  data'[call'[d].file].text = call'[d].build /\ data'[call'[d].file].flushed
    BY DEF StagedWhole
  <2>1. CASE d = c
    BY <1>1, <1>2, <1>4, <1>5, <2>1 DEF Complete, Open, Flushed
  <2>2. CASE d # c
    <3>1. call'[d] = call[d] /\ call[d].file \in Inodes /\ call[d].file # file
      BY <1>1, <1>4, <2>2 DEF WholeInv, VolumeType, CallOK, CallRecord, Complete, FilesApart
    <3> QED BY <1>5, <3>1 DEF WholeInv, StagedWhole
  <2> QED BY <2>1, <2>2
<1>10. NamesWhole'
  BY <1>1, <1>5 DEF WholeInv, VolumeType, NamesWhole, NamedText, WholeFiles, InFile, FilesApart
<1> QED BY <1>6, <1>7, <1>8, <1>9, <1>10 DEF WholeInv

(* What a name stands for was flushed before, so a death takes nothing. *)
LEMMA DieStep == ASSUME WholeInv, Die PROVE WholeInv'
<1>1. Idle \in CallRecord /\ Idle.file = Gone /\ Idle.at = "idle" /\ Idle.op = "none" /\ ~Idle.mixed
  BY DEF Idle, CallRecord
<1>2. /\ \A c \in Callers : call'[c] = Idle
      /\ call' \in [Callers -> CallRecord]
      /\ UNCHANGED <<json, tmp, odd>>
  BY <1>1 DEF Die
<1>3. /\ data' \in [Inodes -> [text : Builds \cup {"empty", "torn"}, flushed : BOOLEAN]]
      /\ \A i \in Inodes : data[i].flushed => data'[i] = data[i]
  BY DEF Die, WholeInv, VolumeType
<1>4. VolumeType'
  BY <1>2, <1>3 DEF WholeInv, VolumeType
<1>5. (\A c \in Callers : CallOK(c, call[c]))'
  BY <1>1, <1>2 DEF CallOK, Open, Complete
<1>6. FilesApart'
  BY <1>1, <1>2 DEF WholeInv, FilesApart
<1>7. StagedWhole'
  BY <1>1, <1>2 DEF StagedWhole, Complete, Open
<1>8. NamesWhole'
  BY <1>2, <1>3 DEF WholeInv, VolumeType, NamesWhole, NamedText, WholeFiles, InFile
<1> QED BY <1>4, <1>5, <1>6, <1>7, <1>8 DEF WholeInv

-----------------------------------------------------------------------------

(* The record an answer, a further step and the end of a call leave. *)
LEMMA Replied ==
  ASSUME WholeInv, NEW c \in Callers, call[c].op # "none",
         NEW a \in {"ok", "taken", "missing", "error"}, Answer(c, a)
  PROVE  \E r \in CallRecord : /\ CallOK(c, r) /\ r.file = Gone /\ r.at \notin Open
                               /\ call' = [call EXCEPT ![c] = r]
<1> DEFINE r == [call[c] EXCEPT !.at = "reply", !.answer = a, !.file = Gone]
<1>1. call[c] \in CallRecord /\ CallOK(c, call[c])
  BY DEF WholeInv, VolumeType
<1>2. r \in CallRecord /\ CallOK(c, r) /\ r.file = Gone /\ r.at \notin Open
  <2>1. /\ r \in CallRecord
        /\ r.at = "reply" /\ r.file = Gone /\ r.op = call[c].op /\ r.name = call[c].name
        /\ r.build = call[c].build /\ r.mixed = call[c].mixed
    BY <1>1 DEF CallRecord
  <2>2. r.at \notin Open
    BY <2>1 DEF Open
  <2>3. CallOK(c, r)
    BY <1>1, <2>1, <2>2 DEF CallOK, Open, Complete
  <2> QED BY <2>1, <2>2, <2>3
<1>3. call' = [call EXCEPT ![c] = r]
  BY DEF Answer
<1> QED BY <1>2, <1>3

LEMMA Answered ==
  ASSUME WholeInv, NEW c \in Callers, call[c].op # "none",
         NEW a \in {"ok", "taken", "missing", "error"}, Answer(c, a),
         json' \in [Names -> Inodes \cup {Gone}],
         \A n \in Names : json'[n] = json[n] \/ json'[n] = Gone,
         UNCHANGED <<tmp, data, odd>>
  PROVE  WholeInv'
BY Replied, QuietStep

(* A call that overwrites fails: its <name>.tmp goes with its file. *)
LEMMA DropStep ==
  ASSUME WholeInv, OneOverwriter, NEW c \in Callers, call[c].op = "overwrite", Answer(c, "error"),
         tmp' = [tmp EXCEPT ![Name(c)] = Gone], UNCHANGED <<json, data, odd>>
  PROVE  WholeInv'
<1>1. PICK r \in CallRecord : /\ CallOK(c, r) /\ r.file = Gone /\ r.at \notin Open
                              /\ call' = [call EXCEPT ![c] = r]
  BY Replied
<1>2. /\ call'[c] = r /\ \A d \in Callers : d # c => call'[d] = call[d]
      /\ \A n \in Names : tmp'[n] # Gone => tmp'[n] = tmp[n]
  BY <1>1 DEF WholeInv, VolumeType
<1>3. VolumeType'
  BY <1>1 DEF WholeInv, VolumeType
<1>4. (\A d \in Callers : CallOK(d, call[d]))'
  BY <1>1, <1>2 DEF WholeInv
<1>5. FilesApart'
  <2>1. \A d \in Callers : call'[d].file # Gone => call'[d] = call[d] /\ call[d].op # "overwrite"
    BY <1>1, <1>2 DEF WholeInv, CallOK, OneOverwriter
  <2> QED BY <1>2, <2>1 DEF WholeInv, FilesApart
<1>6. StagedWhole'
  BY <1>1, <1>2 DEF WholeInv, StagedWhole, Complete
<1>7. NamesWhole'
  BY DEF WholeInv, NamesWhole, NamedText, WholeFiles, InFile
<1> QED BY <1>3, <1>4, <1>5, <1>6, <1>7 DEF WholeInv

LEMMA PublishedStep ==
  ASSUME WholeInv, DistinctAssumption, NEW c \in Callers, call[c].at \in Complete,
         call[c].op = "new", Publish(c), UNCHANGED <<tmp, data, odd>>
  PROVE  WholeInv'
BY Replied, PublishStep DEF Publish

LEMMA Went ==
  ASSUME WholeInv, NEW c \in Callers, NEW pc, Goto(c, pc),
         \/ call[c].at = "check" /\ call[c].op = "delete" /\ pc = "erase"
         \/ call[c].at = "check" /\ call[c].op = "overwrite" /\ pc = "create"
            /\ call[c].build \in Builds
         \/ call[c].at \in Complete \ {"replace"} /\ pc \in Complete \ {"replace"},
         json' \in [Names -> Inodes \cup {Gone}],
         \A n \in Names : json'[n] = json[n] \/ json'[n] = Gone,
         UNCHANGED <<tmp, data, odd>>
  PROVE  WholeInv'
<1> DEFINE r == [call[c] EXCEPT !.at = pc]
<1>1. call[c] \in CallRecord /\ CallOK(c, call[c])
  BY DEF WholeInv, VolumeType
<1>2. /\ r \in CallRecord /\ r.file = call[c].file /\ r.op = call[c].op /\ r.at = pc
      /\ r.name = call[c].name /\ r.build = call[c].build
  BY <1>1 DEF CallRecord, Open, Complete
<1>3. CallOK(c, r)
  BY <1>1 DEF CallRecord, CallOK, Open, Complete
<1>4. r.at \in Complete => call[c].at \in Complete
  BY <1>2 DEF Complete, Open
<1>5. call' = [call EXCEPT ![c] = r]
  BY DEF Goto
<1> HIDE DEF r
<1> QED BY <1>2, <1>3, <1>4, <1>5, QuietStep

LEMMA WholeStep ==
  ASSUME WholeInv, DistinctAssumption, OneOverwriter, [Next]_vars
  PROVE  WholeInv'
<1>0. /\ json \in [Names -> Inodes \cup {Gone}]
      /\ \A c \in Callers : call[c] \in CallRecord /\ CallOK(c, call[c])
  BY DEF WholeInv, VolumeType
<1>1. ASSUME NEW c \in Callers, NEW op \in {"new", "overwrite", "delete"}, NEW n \in Names,
             NEW b \in Builds \cup {NoBuild}, Ask(c, op, n, b)
      PROVE  WholeInv'
  <2> DEFINE r == [Idle EXCEPT !.op = op, !.name = n, !.build = b,
                               !.at = IF op = "new" THEN "create" ELSE "check"]
  <2>1. r \in CallRecord /\ r.file = Gone
    BY DEF Idle, CallRecord
  <2>2. CallOK(c, r)
    <3>1. /\ op = "overwrite" => c \in Overwriters
          /\ op # "delete" => b \in Builds
      BY <1>1 DEF Ask
    <3>2. /\ r.op = op /\ r.name = n /\ r.build = b /\ ~r.mixed
          /\ r.at = IF op = "new" THEN "create" ELSE "check"
      BY DEF Idle
    <3> HIDE DEF r
    <3> QED BY <2>1, <3>1, <3>2 DEF CallOK, Open, Complete
  <2>3. call' = [call EXCEPT ![c] = r] /\ UNCHANGED <<json, tmp, data, odd>>
    BY <1>1 DEF Ask
  <2> HIDE DEF r
  <2> QED BY <1>0, <2>1, <2>2, <2>3, QuietStep
<1>2. ASSUME NEW c \in Callers, Reply(c) PROVE WholeInv'
  <2>1. Idle \in CallRecord /\ CallOK(c, Idle) /\ Idle.file = Gone
    BY DEF Idle, CallRecord, CallOK, Open, Complete
  <2>2. call' = [call EXCEPT ![c] = Idle] /\ UNCHANGED <<json, tmp, data, odd>>
    BY <1>2 DEF Reply
  <2> QED BY <1>0, <2>1, <2>2, QuietStep
<1>3. ASSUME NEW c \in Callers, Check(c) PROVE WholeInv'
  <2>1. call[c].at = "check" /\ call[c].op # "none" /\ UNCHANGED <<json, tmp, data, odd>>
    BY <1>0, <1>3 DEF Check, CallOK
  <2>2. CASE json[Name(c)] = Gone
    BY <1>0, <1>3, <2>1, <2>2, Answered DEF Check
  <2>3. CASE json[Name(c)] # Gone /\ call[c].op = "delete"
    <3>1. Goto(c, "erase")
      BY <1>3, <2>3 DEF Check
    <3> QED BY <1>0, <2>1, <2>3, <3>1, Went
  <2>4. CASE json[Name(c)] # Gone /\ call[c].op # "delete"
    <3>1. Goto(c, "create") /\ call[c].op = "overwrite" /\ call[c].build \in Builds
      BY <1>0, <1>3, <2>1, <2>4 DEF Check, CallOK
    <3> QED BY <1>0, <2>1, <3>1, Went
  <2> QED BY <2>2, <2>3, <2>4
<1>4. ASSUME NEW c \in Callers, Create(c) PROVE WholeInv'
  BY <1>4, CreateStep
<1>5. ASSUME NEW c \in Callers, Write(c) PROVE WholeInv'
  <2> DEFINE row == [text |-> "torn", flushed |-> FALSE]
  <2>1. row \in [text : Builds \cup {"empty", "torn"}, flushed : BOOLEAN]
    OBVIOUS
  <2>2. /\ call[c].at = "write" /\ Goto(c, "flush") /\ UNCHANGED <<json, tmp, odd>>
        /\ data' = [data EXCEPT ![call[c].file] = row]
    BY <1>5 DEF Write
  <2> HIDE DEF row
  <2> QED BY <2>1, <2>2, WriteStep
<1>6. ASSUME NEW c \in Callers, Flush(c) PROVE WholeInv'
  <2> DEFINE row == Flushed(call[c].build)
             pc == IF call[c].op = "new" THEN "publish" ELSE "replace"
  <2>1. /\ call[c].at = "flush" /\ call[c].build \in Builds /\ ~call[c].mixed
        /\ call[c].op \in {"new", "overwrite"}
    BY <1>0, <1>6 DEF Flush, CallOK, Open
  <2>2. row \in [text : Builds \cup {"empty", "torn"}, flushed : BOOLEAN]
    BY <2>1 DEF Flushed
  <2>3. /\ Goto(c, pc) /\ UNCHANGED <<json, tmp, odd>>
        /\ data' = [data EXCEPT ![call[c].file] = row]
    BY <1>6, <2>1 DEF Flush
  <2>4. /\ pc \in {"flush", "publish", "replace"}
        /\ pc = "publish" => call[c].op = "new"
        /\ pc = "replace" => call[c].op = "overwrite"
    BY <2>1
  <2> HIDE DEF pc
  <2> QED BY <2>1, <2>2, <2>3, <2>4, WriteStep
<1>7. ASSUME NEW c \in Callers, CallFails(c) PROVE WholeInv'
  <2>1. call[c].op # "none" /\ Answer(c, "error") /\ UNCHANGED <<json, data, odd>>
    BY <1>0, <1>7 DEF CallFails, CallOK
  <2>2. CASE call[c].op # "overwrite"
    BY <1>0, <1>7, <2>1, <2>2, Answered DEF CallFails
  <2>3. CASE call[c].op = "overwrite"
    BY <1>7, <2>1, <2>3, DropStep DEF CallFails
  <2> QED BY <2>2, <2>3
<1>8. ASSUME NEW c \in Callers, Link(c) PROVE WholeInv'
  <2>1. call[c].at = "publish" /\ call[c].op = "new" /\ UNCHANGED <<tmp, data, odd>>
    BY <1>8 DEF Link, At
  <2>2. CASE Publish(c)
    BY <2>1, <2>2, PublishedStep DEF Complete, Open
  <2>3. CASE ~Free(c) /\ UNCHANGED json /\
             call' = [call EXCEPT ![c].at = "look",
                                  ![c].answer = IF InFile(Name(c)) = "empty" THEN "none" ELSE "taken"]
    <3> DEFINE r == [call[c] EXCEPT !.at = "look",
                                    !.answer = IF InFile(Name(c)) = "empty" THEN "none" ELSE "taken"]
    <3>1. /\ r \in CallRecord /\ r.file = call[c].file /\ r.op = call[c].op /\ r.at = "look"
          /\ r.name = call[c].name /\ r.build = call[c].build
      BY <1>0 DEF CallRecord, Open
    <3>2. CallOK(c, r)
      BY <1>0, <2>1 DEF CallRecord, CallOK, Open, Complete
    <3>3. call' = [call EXCEPT ![c] = r]
      BY <2>3
    <3> HIDE DEF r
    <3> QED BY <1>0, <2>1, <2>3, <3>1, <3>2, <3>3, QuietStep DEF Complete, Open
  <2> QED BY <1>8, <2>2, <2>3 DEF Link
<1>9. ASSUME NEW c \in Callers, Look(c) PROVE WholeInv'
  <2>1. call[c].at = "look" /\ call[c].op = "new" /\ UNCHANGED <<json, tmp, data, odd>>
    BY <1>9 DEF Look, At
  <2>2. CASE Goto(c, "unlink")
    BY <1>0, <2>1, <2>2, Went DEF Complete, Open
  <2>3. CASE Answer(c, "taken")
    BY <1>0, <2>1, <2>3, Answered
  <2> QED BY <1>9, <2>2, <2>3 DEF Look
<1>10. ASSUME NEW c \in Callers, Unlink(c) PROVE WholeInv'
  <2>1. call[c].at = "unlink" /\ call[c].op = "new" /\ UNCHANGED <<tmp, data, odd>>
    BY <1>10 DEF Unlink, At
  <2>2. /\ json' \in [Names -> Inodes \cup {Gone}]
        /\ \A n \in Names : json'[n] = json[n] \/ json'[n] = Gone
    BY <1>0, <1>10 DEF Unlink
  <2>3. CASE Answer(c, "taken")
    BY <2>1, <2>2, <2>3, Answered
  <2>4. CASE Goto(c, "relink")
    BY <2>1, <2>2, <2>4, Went DEF Complete, Open
  <2> QED BY <1>10, <2>3, <2>4 DEF Unlink
<1>11. ASSUME NEW c \in Callers, Relink(c) PROVE WholeInv'
  <2>1. call[c].at = "relink" /\ call[c].op = "new" /\ UNCHANGED <<tmp, data, odd>>
    BY <1>11 DEF Relink, At
  <2>2. CASE Publish(c)
    BY <2>1, <2>2, PublishedStep DEF Complete, Open
  <2>3. CASE Answer(c, "taken") /\ UNCHANGED json
    BY <1>0, <2>1, <2>3, Answered
  <2> QED BY <1>11, <2>2, <2>3 DEF Relink
<1>12. ASSUME NEW c \in Callers, Claim(c) PROVE WholeInv'
  <2>1. /\ call[c].at \in {"publish", "relink"} /\ call[c].op = "new"
        /\ UNCHANGED <<json, tmp, data, odd>>
    BY <1>12 DEF Claim, At
  <2>2. CASE Goto(c, "move")
    BY <1>0, <2>1, <2>2, Went DEF Complete, Open
  <2>3. CASE Answer(c, "taken")
    BY <1>0, <2>1, <2>3, Answered
  <2> QED BY <1>12, <2>2, <2>3 DEF Claim
<1>13. ASSUME NEW c \in Callers, Move(c) PROVE WholeInv'
  BY <1>13, PublishedStep DEF Move, At, Complete, Open
<1>14. ASSUME NEW c \in Callers, Replace(c) PROVE WholeInv'
  <2>1. call[c].at = "replace" /\ call[c].op = "overwrite" /\ UNCHANGED <<data, odd>>
    BY <1>14 DEF Replace, At
  <2>2. call[c].file = tmp[Name(c)] /\ call[c].file # Gone
    BY <1>0, <2>1 DEF WholeInv, FilesApart, CallOK, Name, Open
  <2>3. /\ json' = [json EXCEPT ![Name(c)] = call[c].file]
        /\ tmp' = [tmp EXCEPT ![Name(c)] = Gone] /\ Answer(c, "ok")
    BY <1>14, <2>2 DEF Replace, WithoutTmp
  <2> QED BY <2>1, <2>3, Replied, PublishStep DEF Complete, Open
<1>15. ASSUME NEW c \in Callers, Erase(c) PROVE WholeInv'
  <2>1. call[c].op = "delete" /\ UNCHANGED <<tmp, data, odd>>
    BY <1>15 DEF Erase, At
  <2>2. /\ json' \in [Names -> Inodes \cup {Gone}]
        /\ \A n \in Names : json'[n] = json[n] \/ json'[n] = Gone
    BY <1>0, <1>15 DEF Erase
  <2>3. \E a \in {"ok", "error"} : Answer(c, a)
    BY <1>15 DEF Erase
  <2> QED BY <2>1, <2>2, <2>3, Answered
<1>16. CASE Die
  BY <1>16, DieStep
<1>17. CASE UNCHANGED vars
  BY <1>17 DEF vars, WholeInv, VolumeType, FilesApart, StagedWhole, NamesWhole, NamedText, WholeFiles, InFile
<1> QED
  BY <1>1, <1>2, <1>3, <1>4, <1>5, <1>6, <1>7, <1>8, <1>9, <1>10, <1>11, <1>12, <1>13, <1>14,
     <1>15, <1>16, <1>17 DEF Next

LEMMA WholeInit == ASSUME Init PROVE WholeInv
<1>1. Idle \in CallRecord /\ Idle.file = Gone /\ Idle.at = "idle" /\ Idle.op = "none" /\ ~Idle.mixed
  BY DEF Idle, CallRecord
<1>2. /\ call \in [Callers -> CallRecord] /\ \A c \in Callers : call[c] = Idle
      /\ \A n \in Names : tmp[n] = Gone
  BY <1>1 DEF Init
<1>3. VolumeType
  BY <1>2 DEF Init, VolumeType
<1>4. \A c \in Callers : CallOK(c, call[c])
  BY <1>1, <1>2 DEF CallOK, Open, Complete
<1>5. FilesApart
  BY <1>1, <1>2 DEF FilesApart
<1>6. StagedWhole
  BY <1>1, <1>2 DEF StagedWhole, Complete, Open
<1>7. NamesWhole
  <2>1. PICK i \in Inodes : json = [n \in Names |-> IF n \in odd.leftover THEN i ELSE Gone]
    BY DEF Init
  <2>2. \A n \in Names : json[n] # Gone => n \in odd.leftover /\ json[n] = i
    BY <2>1
  <2>3. data[i].text = "empty" /\ data[i].flushed
    BY DEF Init
  <2> QED BY <2>2, <2>3 DEF NamesWhole, NamedText, WholeFiles, InFile
<1> QED BY <1>3, <1>4, <1>5, <1>6, <1>7 DEF WholeInv

(* What is under a build's name is a whole build, whoever saves, deletes   *)
(* and overwrites, and whenever the game dies, while no two callers        *)
(* overwrite.                                                              *)
THEOREM WholeCorrect == ASSUME OneOverwriter PROVE Spec => []WholeFiles
<1>1. Init => WholeInv
  BY WholeInit
<1>2. WholeInv /\ [Next]_vars => WholeInv'
  BY WholeStep, DistinctAssumption
<1>3. WholeInv => WholeFiles
  BY DEF WholeInv, NamesWhole
<1> QED BY <1>1, <1>2, <1>3, PTL DEF Spec

(* What is fixed, and the bound. *)
Fixed ==
    /\ odd \in [leftover : SUBSET Names, refused : SUBSET Names]
    /\ deaths \in 0 .. MaxDeaths

LEMMA FixedStep ==
  ASSUME MaxDeaths \in Nat, Fixed, [Next]_vars
  PROVE  Fixed'
<1>1. odd' = odd /\ (deaths' = deaths \/ (deaths < MaxDeaths /\ deaths' = deaths + 1))
  <2>1. CASE Die
    BY <2>1 DEF Die
  <2>2. CASE UNCHANGED vars
    BY <2>2 DEF vars
  <2>3. ASSUME NEW c \in Callers,
               \/ \E op \in {"new", "overwrite", "delete"}, n \in Names, b \in Builds \cup {NoBuild} :
                    Ask(c, op, n, b)
               \/ Reply(c) \/ Check(c) \/ Create(c) \/ Write(c) \/ Flush(c) \/ CallFails(c)
               \/ Link(c) \/ Look(c) \/ Unlink(c) \/ Relink(c) \/ Claim(c) \/ Move(c)
               \/ Replace(c) \/ Erase(c)
        PROVE  odd' = odd /\ deaths' = deaths
    BY <2>3 DEF Ask, Reply, Check, Create, Write, Flush, CallFails, Link, Look, Unlink, Relink,
                Claim, Move, Replace, Erase
  <2> QED BY <2>1, <2>2, <2>3 DEF Next
<1> QED BY <1>1 DEF Fixed

(* The variables keep their types, and no name stands for the file that is *)
(* being written for it, while no two callers overwrite.                   *)
THEOREM TypeCorrect ==
  ASSUME OneOverwriter, MayBeOdd \subseteq Names, MaxDeaths \in Nat
  PROVE  Spec => []TypeOK
<1>1. Init => WholeInv /\ Fixed
  BY WholeInit DEF Init, Fixed
<1>2. WholeInv /\ Fixed /\ [Next]_vars => WholeInv' /\ Fixed'
  BY WholeStep, FixedStep, DistinctAssumption
<1>3. WholeInv /\ Fixed => TypeOK
  <2> SUFFICES ASSUME WholeInv, Fixed PROVE TypeOK
    OBVIOUS
  <2>1. \A n \in Names : json[n] # Gone => json[n] # tmp[n]
    BY DEF WholeInv, FilesApart
  <2>2. call \in [Callers -> [op : {"none", "new", "overwrite", "delete"},
                             name : Names \cup {"none"}, build : Builds \cup {NoBuild},
                             at : {"idle", "check", "create", "write", "flush", "publish", "look",
                                   "unlink", "relink", "move", "replace", "erase", "reply"},
                             file : Inodes \cup {Gone}, mixed : BOOLEAN,
                             answer : {"none", "ok", "taken", "missing", "error"}]]
    BY DEF WholeInv, VolumeType, CallRecord, Open
  <2> QED BY <2>1, <2>2 DEF TypeOK, WholeInv, VolumeType, Fixed
<1> QED BY <1>1, <1>2, <1>3, PTL DEF Spec

-----------------------------------------------------------------------------
(* The refinement, with at most one caller that overwrites or deletes: the *)
(* file that an overwrite or a delete has found stays until it acts.       *)

OneChanger == \A c, d \in Overwriters \cup Deleters : c = d

Role(c, x) ==
    /\ x.op = "new" => c \in Savers
    /\ x.op \in {"overwrite", "delete"} => c \in Overwriters \cup Deleters

(* What a call that has looked at its name may rely on, and what it has    *)
(* been told.                                                              *)
Target(x) ==
    /\ x.op \in {"overwrite", "delete"} => ~IsEmptyFile(x.name)
    /\ x.op = "overwrite" /\ x.at \in {"create", "write", "flush", "replace"} => json[x.name] # Gone
    /\ x.at = "erase" => x.op = "delete" /\ json[x.name] # Gone
    /\ x.at = "look" => IF IsEmptyFile(x.name) THEN x.answer = "none" ELSE x.answer = "taken"
    /\ x.at = "unlink" => IsEmptyFile(x.name)
    /\ x.at = "relink" => ~IsEmptyFile(x.name)
    /\ x.at = "move" => x.name \in odd.refused /\ json[x.name] = Gone
    /\ x.at \notin {"look", "reply"} => x.answer = "none"
    /\ x.at = "reply" => x.answer # "none"

(* Bound of the model: nobody else saves an odd name. *)
Alone ==
    \A c, d \in Callers : c # d /\ call[c].op = "new" /\ call[d].op = "new" /\ call[c].name = call[d].name =>
                            call[c].name \notin odd.leftover \cup odd.refused

RefInv ==
    /\ WholeInv
    /\ odd.leftover \cap odd.refused = {}
    /\ \A c \in Callers : Role(c, call[c]) /\ Target(call[c])
    /\ Alone

-----------------------------------------------------------------------------

(* The other calls stay where they are; their `mixed` is of no matter.     *)
Others(c) ==
    \A d \in Callers \ {c} :
      /\ call'[d].op = call[d].op /\ call'[d].name = call[d].name /\ call'[d].build = call[d].build
      /\ call'[d].at = call[d].at /\ call'[d].answer = call[d].answer

(* What a name stands for is as it was. *)
NameKept(n) ==
    /\ json'[n] = Gone <=> json[n] = Gone
    /\ json[n] # Gone => InFile(n)' = InFile(n)

(* What a call relies on is kept when its name is, and when another call   *)
(* changes the name in one of the ways that remain.                        *)
LEMMA TargetKept ==
  ASSUME NEW x, NEW y, y.op = x.op, y.name = x.name, y.at = x.at, y.answer = x.answer,
         Target(x), odd' = odd, NameKept(x.name)
  PROVE  Target(y)'
<1>1. IsEmptyFile(x.name)' <=> IsEmptyFile(x.name)
  BY DEF NameKept, IsEmptyFile
<1> QED BY <1>1 DEF Target, NameKept

LEMMA TargetChanged ==
  ASSUME NEW x, NEW y, y.op = x.op, y.name = x.name, y.at = x.at, y.answer = x.answer,
         Target(x), odd' = odd, ~IsEmptyFile(x.name)',
         json'[x.name] = Gone => x.op \notin {"overwrite", "delete"},
         IsEmptyFile(x.name) => x.at \notin {"look", "unlink"},
         x.at = "unlink" => IsEmptyFile(x.name),
         json'[x.name] # Gone => x.at # "move"
  PROVE  Target(y)'
BY DEF Target

(* A step that changes what no name, or one name, stands for. *)
LEMMA RefKept ==
  ASSUME RefInv, WholeInv', odd' = odd, NEW c \in Callers, Others(c),
         Role(c, call'[c]), Target(call[c])',
         \/ call'[c].op = call[c].op /\ call'[c].name = call[c].name
         \/ call'[c].op # "new"
         \/ \A d \in Callers \ {c} : call[d].op = "new" =>
              call'[c].name \notin odd.leftover \cup odd.refused,
         \A d \in Callers \ {c} : call[d].op # "none" => Target(call[d])'
  PROVE  RefInv'
<1>1. \A d \in Callers : Role(d, call'[d])
  BY DEF RefInv, Others, Role
<1>2. \A d \in Callers \ {c} : call[d].op = "none" => Target(call[d])'
  <2> SUFFICES ASSUME NEW d \in Callers \ {c}, call[d].op = "none" PROVE Target(call[d])'
    OBVIOUS
  <2>1. /\ call'[d].op = "none" /\ call'[d].at = call[d].at /\ call'[d].answer = call[d].answer
        /\ call[d].at = "idle" /\ Target(call[d])
    BY DEF RefInv, Others, WholeInv, CallOK
  <2> QED BY <2>1 DEF Target
<1>3. Alone'
  BY DEF RefInv, Alone, Others
<1> QED BY <1>1, <1>2, <1>3 DEF RefInv

LEMMA RefSame ==
  ASSUME RefInv, WholeInv', odd' = odd, NEW c \in Callers, Others(c),
         \A n \in Names : NameKept(n),
         NEW r, call'[c] = r, Role(c, r), Target(r), r.op # "none" => r.name \in Names,
         r.at # "idle" => r.op # "none",
         \/ r.op = call[c].op /\ r.name = call[c].name
         \/ r.op # "new"
         \/ \A d \in Callers \ {c} : call[d].op = "new" =>
              r.name \notin odd.leftover \cup odd.refused
  PROVE  RefInv' /\ Saved' = Saved
<1>1. \A d \in Callers \ {c} : call[d].op # "none" => Target(call[d])'
  <2> SUFFICES ASSUME NEW d \in Callers \ {c}, call[d].op # "none" PROVE Target(call[d])'
    OBVIOUS
  <2>1. Target(call[d]) /\ call[d].name \in Names
    BY DEF RefInv, WholeInv, CallOK
  <2> QED BY <2>1, TargetKept DEF Others
<1>2. Target(call[c])'
  <2>1. CASE r.op # "none"
    BY <2>1, TargetKept
  <2>2. CASE r.op = "none"
    BY <2>2 DEF Target
  <2> QED BY <2>1, <2>2
<1>3. RefInv'
  BY <1>1, <1>2, RefKept
<1>4. Saved' = Saved
  BY DEF NameKept, Saved
<1> QED BY <1>3, <1>4

LEMMA RefChanged ==
  ASSUME RefInv, WholeInv', odd' = odd, NEW c \in Callers, Others(c),
         NEW n \in Names, \A m \in Names \ {n} : NameKept(m), ~IsEmptyFile(n)',
         Role(c, call'[c]), Target(call[c])',
         call'[c].op = call[c].op /\ call'[c].name = call[c].name,
         \A d \in Callers \ {c} : call[d].op # "none" /\ call[d].name = n =>
           /\ json'[n] = Gone => call[d].op \notin {"overwrite", "delete"}
           /\ IsEmptyFile(n) => call[d].at \notin {"look", "unlink"}
           /\ json'[n] # Gone => call[d].at # "move"
  PROVE  RefInv'
<1>1. \A d \in Callers \ {c} : call[d].op # "none" => Target(call[d])'
  <2> SUFFICES ASSUME NEW d \in Callers \ {c}, call[d].op # "none" PROVE Target(call[d])'
    OBVIOUS
  <2>1. Target(call[d]) /\ call[d].name \in Names
    BY DEF RefInv, WholeInv, CallOK
  <2>2. CASE call[d].name # n
    BY <2>1, <2>2, TargetKept DEF Others
  <2>3. CASE call[d].name = n
    <3>1. call[d].at = "unlink" => IsEmptyFile(n)
      BY <2>1, <2>3 DEF Target
    <3> QED BY <2>1, <2>3, <3>1, TargetChanged DEF Others
  <2> QED BY <2>2, <2>3
<1> QED BY <1>1, RefKept

(* What the abstract specification sees of a step. *)
AbstractCalls ==
    [c \in Callers |-> [op |-> call[c].op, name |-> call[c].name,
                        build |-> call[c].build, answer |-> call[c].answer]]

LEMMA CallsSame ==
  ASSUME NEW c \in Callers, Others(c), call'[c].op = call[c].op, call'[c].name = call[c].name,
         call'[c].build = call[c].build, call'[c].answer = call[c].answer
  PROVE  AbstractCalls' = AbstractCalls
BY DEF AbstractCalls, Others

LEMMA CallsAnswered ==
  ASSUME NEW c \in Callers, Others(c), call'[c].op = call[c].op, call'[c].name = call[c].name,
         call'[c].build = call[c].build, NEW a, call'[c].answer = a
  PROVE  Abstract!Answer(c, a)
<1>1. AbstractCalls' = [AbstractCalls EXCEPT ![c].answer = a]
  BY DEF AbstractCalls, Others
<1> QED BY <1>1 DEF AbstractCalls, Abstract!Answer

LEMMA Going ==
  ASSUME VolumeType, NEW c \in Callers, NEW pc, Goto(c, pc)
  PROVE  /\ Others(c) /\ call'[c].at = pc /\ call'[c].op = call[c].op /\ call'[c].name = call[c].name
         /\ call'[c].build = call[c].build /\ call'[c].answer = call[c].answer
BY DEF VolumeType, CallRecord, Goto, Others

LEMMA Answering ==
  ASSUME VolumeType, NEW c \in Callers, NEW a, Answer(c, a)
  PROVE  /\ Others(c) /\ call'[c].at = "reply" /\ call'[c].op = call[c].op
         /\ call'[c].name = call[c].name /\ call'[c].build = call[c].build /\ call'[c].answer = a
BY DEF VolumeType, CallRecord, Answer, Others

AbstractStep == Abstract!Next \/ (Saved' = Saved /\ AbstractCalls' = AbstractCalls)

LEMMA NamesUntouched ==
  ASSUME json' = json, data' = data
  PROVE  \A n \in Names : NameKept(n)
BY DEF NameKept, InFile

(* A call goes on, and nobody sees it. *)
LEMMA SilentStep ==
  ASSUME RefInv, WholeInv', odd' = odd, NEW c \in Callers, NEW pc,
         \A n \in Names : NameKept(n),
         Others(c), call'[c].at = pc, call'[c].op = call[c].op, call'[c].name = call[c].name,
         call'[c].build = call[c].build, call'[c].answer = call[c].answer, Target(call'[c]) ,
         call[c].op # "none"
  PROVE  RefInv' /\ AbstractStep
<1>1. Role(c, call'[c]) /\ call'[c].name \in Names
  BY DEF RefInv, Role, WholeInv, CallOK
<1> QED BY <1>1, RefSame, CallsSame DEF AbstractStep

(* A call is told what the names do not have to change for. *)
LEMMA ToldStep ==
  ASSUME RefInv, WholeInv', odd' = odd, NEW c \in Callers, NEW a, a # "none", Answer(c, a),
         \A n \in Names : NameKept(n), call[c].op # "none", call[c].answer = "none",
         \/ a = "error"
         \/ a = "taken" /\ call[c].op = "new" /\ Saved[call[c].name] # NoBuild
         \/ a = "missing" /\ call[c].op \in {"overwrite", "delete"}
            /\ Saved[call[c].name] = NoBuild
  PROVE  RefInv' /\ AbstractStep
<1>1. /\ Others(c) /\ call'[c].at = "reply" /\ call'[c].op = call[c].op
      /\ call'[c].name = call[c].name /\ call'[c].build = call[c].build /\ call'[c].answer = a
  BY Answering DEF RefInv, WholeInv
<1>2. PICK r : r = call'[c]
  OBVIOUS
<1>3. Target(r) /\ Role(c, r) /\ r.name \in Names
  BY <1>1, <1>2 DEF RefInv, Target, Role, WholeInv, CallOK
<1>4. RefInv' /\ Saved' = Saved
  BY <1>1, <1>2, <1>3, RefSame
<1>5. Abstract!Answer(c, a)
  BY <1>1, CallsAnswered
<1>6. Abstract!Fail(c) \/ Abstract!SaveNew(c) \/ Abstract!SaveOverwrite(c) \/ Abstract!Delete(c)
  <2>1. /\ AbstractCalls[c].op = call[c].op /\ AbstractCalls[c].name = call[c].name
        /\ AbstractCalls[c].answer = call[c].answer
    BY DEF AbstractCalls
  <2>2. AbstractCalls[c] # Abstract!Idle
    BY <2>1 DEF Abstract!Idle
  <2> QED BY <1>4, <1>5, <2>1, <2>2 DEF AbstractCalls, Abstract!Fail, Abstract!SaveNew,
        Abstract!SaveOverwrite, Abstract!Delete, Abstract!Pending, Abstract!Listed
<1> QED BY <1>4, <1>6 DEF AbstractStep, Abstract!Next

(* A build gets its name: from nothing, or over the build that was there. *)
LEMMA NamedStep ==
  ASSUME RefInv, WholeInv', DistinctAssumption, TextAssumption, odd' = odd, data' = data,
         NEW c \in Callers, call[c].at \in Complete, Answer(c, "ok"), call[c].answer = "none",
         json' = [json EXCEPT ![call[c].name] = call[c].file],
         \/ call[c].op = "new" /\ json[call[c].name] = Gone
         \/ call[c].op = "overwrite"
  PROVE  RefInv' /\ AbstractStep
<1>0. PICK n \in Names : n = call[c].name
  BY DEF RefInv, WholeInv, CallOK, Complete
<1>a. PICK file : file = call[c].file
  OBVIOUS
<1>1. /\ Others(c) /\ call'[c].at = "reply" /\ call'[c].op = call[c].op
      /\ call'[c].name = n /\ call'[c].build = call[c].build /\ call'[c].answer = "ok"
  BY <1>0, Answering DEF RefInv, WholeInv
<1>2. /\ call[c].build \in Builds /\ data[file].text = call[c].build
      /\ file # Gone /\ CallOK(c, call[c]) /\ Target(call[c])
  BY <1>0, <1>a DEF RefInv, WholeInv, CallOK, StagedWhole, Complete
<1>3. /\ json'[n] = file /\ \A m \in Names \ {n} : json'[m] = json[m]
  BY <1>0, <1>a, <1>2 DEF RefInv, WholeInv, VolumeType
<1>4. InFile(n)' = call[c].build /\ ~IsEmptyFile(n)'
  BY <1>2, <1>3 DEF InFile, IsEmptyFile, TextAssumption
<1>5. \A m \in Names \ {n} : NameKept(m)
  BY <1>3 DEF NameKept, InFile
<1>6. call[c].op = "overwrite" => json[n] # Gone /\ ~IsEmptyFile(n)
  BY <1>0, <1>2 DEF Target, CallOK, Complete, Open
<1>7. \A d \in Callers \ {c} : call[d].op # "none" /\ call[d].name = n =>
        /\ IsEmptyFile(n) => call[d].at \notin {"look", "unlink"}
        /\ call[d].at # "move"
  <2> SUFFICES ASSUME NEW d \in Callers \ {c}, call[d].name = n
               PROVE  /\ IsEmptyFile(n) => call[d].at \notin {"look", "unlink"}
                      /\ call[d].at # "move"
    OBVIOUS
  <2>1. ~IsEmptyFile(n)
    BY <1>0, <1>6 DEF IsEmptyFile
  <2>2. ASSUME call[d].at = "move" PROVE FALSE
    <3>1. Target(call[d]) /\ CallOK(d, call[d])
      BY DEF RefInv, WholeInv
    <3>2. json[n] = Gone /\ n \in odd.refused /\ call[d].op = "new"
      BY <2>2, <3>1 DEF Target, CallOK, Complete, Open
    <3>3. call[c].op = "new"
      BY <1>0, <1>6, <3>2
    <3> QED BY <1>0, <3>2, <3>3 DEF RefInv, Alone
  <2> QED BY <2>1, <2>2
<1>8. Role(c, call'[c]) /\ Target(call[c])'
  BY <1>0, <1>1, <1>4 DEF RefInv, Role, Target
<1>9. RefInv'
  BY <1>0, <1>1, <1>2, <1>3, <1>4, <1>5, <1>7, <1>8, RefChanged
<1>10. Saved' = [Saved EXCEPT ![n] = call[c].build]
  <2>1. \A m \in Names \ {n} : Saved'[m] = Saved[m]
    BY <1>5 DEF NameKept, Saved
  <2>2. Saved'[n] = call[c].build
    BY <1>2, <1>3, <1>4 DEF Saved
  <2> QED BY <1>2, <2>1, <2>2 DEF Saved
<1>11. Abstract!Answer(c, "ok")
  BY <1>0, <1>1, CallsAnswered
<1>12. IF call[c].op = "new" THEN Saved[n] = NoBuild ELSE Saved[n] # NoBuild
  BY <1>0, <1>2, <1>6 DEF Saved, IsEmptyFile, RefInv, WholeInv, NamesWhole, NamedText, DistinctAssumption
<1>13. Abstract!SaveNew(c) \/ Abstract!SaveOverwrite(c)
  <2>1. /\ AbstractCalls[c].op = call[c].op /\ AbstractCalls[c].name = n
        /\ AbstractCalls[c].build = call[c].build /\ AbstractCalls[c].answer = "none"
    BY <1>0 DEF AbstractCalls
  <2> QED BY <1>10, <1>11, <1>12, <2>1 DEF AbstractCalls, Abstract!SaveNew, Abstract!SaveOverwrite,
        Abstract!Pending, Abstract!Listed, Abstract!Holds
<1> QED BY <1>9, <1>13 DEF AbstractStep, Abstract!Next

(* A call that is over, or begins; one that works on its own file. *)
LEMMA AskRef ==
  ASSUME RefInv, WholeInv', NEW c \in Callers, NEW op \in {"new", "overwrite", "delete"},
         NEW n \in Names, NEW b \in Builds \cup {NoBuild}, Ask(c, op, n, b)
  PROVE  RefInv' /\ AbstractStep
<1>1. PICK r : r = [Idle EXCEPT !.op = op, !.name = n, !.build = b,
                                !.at = IF op = "new" THEN "create" ELSE "check"]
  OBVIOUS
<1>2. /\ r.op = op /\ r.name = n /\ r.build = b /\ r.answer = "none"
      /\ r.at = IF op = "new" THEN "create" ELSE "check"
  BY <1>1 DEF Idle
<1>3. /\ call' = [call EXCEPT ![c] = r] /\ UNCHANGED <<json, data, odd>> /\ call[c] = Idle
      /\ op # "new" => ~IsEmptyFile(n)
      /\ op = "new" => c \in Savers /\ \A d \in Callers \ {c} : call[d].op = "new" =>
                         n \notin odd.leftover \cup odd.refused
      /\ op \in {"overwrite", "delete"} => c \in Overwriters \cup Deleters
  <2>1. Undisturbed(c, n) => \A d \in Callers \ {c} : call[d].op = "new" =>
                               n \notin odd.leftover \cup odd.refused
    <3>1. Idle.op = "none"
      BY DEF Idle
    <3> QED BY <3>1 DEF Undisturbed, RefInv, Role
  <2>2. call' = [call EXCEPT ![c] = r] /\ UNCHANGED <<json, data, odd>> /\ call[c] = Idle
    BY <1>1 DEF Ask
  <2>3. /\ op # "new" => ~IsEmptyFile(n)
        /\ op = "new" => c \in Savers /\ Undisturbed(c, n)
        /\ op \in {"overwrite", "delete"} => c \in Overwriters \cup Deleters
    BY DEF Ask, IsEmptyFile
  <2> QED BY <2>1, <2>2, <2>3
<1>4. /\ call'[c] = r /\ Others(c)
  BY <1>3 DEF Others, RefInv, WholeInv, VolumeType
<1>5. Role(c, r) /\ Target(r)
  BY <1>2, <1>3 DEF Role, Target
<1>6. RefInv' /\ Saved' = Saved
  BY <1>2, <1>3, <1>4, <1>5, NamesUntouched, RefSame
<1>7. Abstract!Ask(c)
  <2>1. AbstractCalls[c] = Abstract!Idle
    BY <1>3 DEF AbstractCalls, Abstract!Idle, Idle
  <2>2. AbstractCalls' = [AbstractCalls EXCEPT ![c] =
                            [Abstract!Idle EXCEPT !.op = op, !.name = n, !.build = b]]
    BY <1>2, <1>4 DEF AbstractCalls, Abstract!Idle, Others
  <2>3. \E o \in {"new", "overwrite", "delete"}, m \in Names, d \in Builds \cup {NoBuild} :
          AbstractCalls' = [AbstractCalls EXCEPT ![c] =
                              [Abstract!Idle EXCEPT !.op = o, !.name = m, !.build = d]]
    BY <2>2
  <2> QED BY <1>6, <2>1, <2>3 DEF AbstractCalls, Abstract!Ask
<1> QED BY <1>6, <1>7 DEF AbstractStep, Abstract!Next

LEMMA ReplyRef ==
  ASSUME RefInv, WholeInv', NEW c \in Callers, Reply(c)
  PROVE  RefInv' /\ AbstractStep
<1>1. /\ Idle.op = "none" /\ Idle.name = "none" /\ Idle.build = NoBuild /\ Idle.answer = "none"
      /\ Idle.at = "idle"
  BY DEF Idle
<1>2. /\ call'[c] = Idle /\ Others(c) /\ UNCHANGED <<json, data, odd>> /\ call[c].answer # "none"
  BY DEF Reply, Others, RefInv, WholeInv, VolumeType, Target
<1>3. RefInv' /\ Saved' = Saved
  BY <1>1, <1>2, NamesUntouched, RefSame DEF Role, Target
<1>4. AbstractCalls' = [AbstractCalls EXCEPT ![c] = Abstract!Idle]
  BY <1>1, <1>2 DEF AbstractCalls, Abstract!Idle, Others
<1>5. AbstractCalls[c].answer # "none"
  BY <1>2 DEF AbstractCalls
<1> QED BY <1>3, <1>4, <1>5 DEF AbstractStep, AbstractCalls, Abstract!Next, Abstract!Return

LEMMA CheckRef ==
  ASSUME RefInv, WholeInv', NEW c \in Callers, Check(c)
  PROVE  RefInv' /\ AbstractStep
<1>1. /\ call[c].at = "check" /\ call[c].op \in {"overwrite", "delete"} /\ call[c].answer = "none"
      /\ UNCHANGED <<json, data, odd>> /\ Target(call[c]) /\ VolumeType
  BY DEF Check, RefInv, WholeInv, CallOK, Target
<1>2. CASE json[call[c].name] = Gone
  <2>1. Answer(c, "missing") /\ Saved[call[c].name] = NoBuild
    BY <1>2 DEF Check, Name, Saved, RefInv, WholeInv, CallOK
  <2> QED BY <1>1, <2>1, NamesUntouched, ToldStep
<1>3. CASE json[call[c].name] # Gone
  <2>1. PICK pc : Goto(c, pc) /\ pc = IF call[c].op = "delete" THEN "erase" ELSE "create"
    BY <1>3 DEF Check, Name
  <2>2. /\ Others(c) /\ call'[c].at = pc /\ call'[c].op = call[c].op /\ call'[c].name = call[c].name
        /\ call'[c].build = call[c].build /\ call'[c].answer = call[c].answer
    BY <1>1, <2>1, Going
  <2>3. Target(call'[c])
    BY <1>1, <1>3, <2>1, <2>2 DEF Target
  <2> QED BY <1>1, <2>2, <2>3, NamesUntouched, SilentStep
<1> QED BY <1>2, <1>3

LEMMA CreateRef ==
  ASSUME RefInv, WholeInv', DistinctAssumption, NEW c \in Callers, Create(c)
  PROVE  RefInv' /\ AbstractStep
<1>1. /\ call[c].at = "create" /\ call[c].op \in {"new", "overwrite"} /\ call[c].name \in Names
      /\ UNCHANGED <<json, odd>> /\ Target(call[c])
  BY DEF Create, RefInv, WholeInv, CallOK, Open
<1>2. PICK i : /\ data' = [data EXCEPT ![i] = [text |-> "empty", flushed |-> FALSE]]
               /\ \A n \in Names : json[n] # Gone => json[n] # i
               /\ call' = [d \in Callers |->
                    IF d = c THEN [call[c] EXCEPT !.file = i, !.mixed = Shared(i), !.at = "write"]
                    ELSE IF call[d].file = i THEN [call[d] EXCEPT !.mixed = TRUE] ELSE call[d]]
  <2>1. PICK i \in IF call[c].op = "overwrite" /\ tmp[Name(c)] # Gone
                   THEN {tmp[Name(c)]} ELSE Inodes \ Used :
          /\ data' = [data EXCEPT ![i] = [text |-> "empty", flushed |-> FALSE]]
          /\ call' = [d \in Callers |->
               IF d = c THEN [call[c] EXCEPT !.file = i, !.mixed = Shared(i), !.at = "write"]
               ELSE IF call[d].file = i THEN [call[d] EXCEPT !.mixed = TRUE] ELSE call[d]]
    BY DEF Create, Shared
  <2>2. CASE call[c].op = "overwrite" /\ tmp[Name(c)] # Gone
    <3>1. \A n \in Names : json[n] # i
      BY <1>1, <2>1, <2>2 DEF RefInv, WholeInv, FilesApart, Name
    <3> QED BY <2>1, <3>1
  <2>3. CASE ~(call[c].op = "overwrite" /\ tmp[Name(c)] # Gone)
    <3>1. \A n \in Names : json[n] # i
      BY <2>1, <2>3 DEF Used
    <3> QED BY <2>1, <3>1
  <2> QED BY <2>2, <2>3
<1>3. /\ Others(c) /\ call'[c].at = "write" /\ call'[c].op = call[c].op
      /\ call'[c].name = call[c].name /\ call'[c].build = call[c].build
      /\ call'[c].answer = call[c].answer
  <2>1. call[c] \in CallRecord /\ \A d \in Callers : call[d] \in CallRecord
    BY DEF RefInv, WholeInv, VolumeType
  <2>2. PICK shared : call'[c] = [call[c] EXCEPT !.file = i, !.mixed = shared, !.at = "write"]
    BY <1>2
  <2>3. \A d \in Callers \ {c} : call'[d] = call[d] \/ call'[d] = [call[d] EXCEPT !.mixed = TRUE]
    BY <1>2
  <2>4. Others(c)
    <3> SUFFICES ASSUME NEW d \in Callers \ {c}
                 PROVE  /\ call'[d].op = call[d].op /\ call'[d].name = call[d].name
                        /\ call'[d].build = call[d].build /\ call'[d].at = call[d].at
                        /\ call'[d].answer = call[d].answer
      BY DEF Others
    <3>1. CASE call'[d] = call[d]
      BY <3>1
    <3>2. CASE \E m : call'[d] = [call[d] EXCEPT !.mixed = m]
      BY <2>1, <3>2 DEF CallRecord
    <3> QED BY <2>3, <3>1, <3>2
  <2> QED BY <2>1, <2>2, <2>4 DEF CallRecord
<1>4. \A n \in Names : NameKept(n)
  BY <1>1, <1>2 DEF NameKept, InFile, RefInv, WholeInv, VolumeType
<1>5. Target(call'[c])
  BY <1>1, <1>3 DEF Target
<1> QED BY <1>1, <1>3, <1>4, <1>5, SilentStep

LEMMA WriteRef ==
  ASSUME RefInv, WholeInv', NEW c \in Callers, call[c].at \in {"write", "flush"},
         NEW pc \in {"flush", "publish", "replace"}, Goto(c, pc),
         pc = "replace" => call[c].op = "overwrite",
         NEW row, data' = [data EXCEPT ![call[c].file] = row], UNCHANGED <<json, odd>>
  PROVE  RefInv' /\ AbstractStep
<1>1. /\ call[c].op \in {"new", "overwrite"} /\ Target(call[c]) /\ VolumeType
      /\ call[c].file # Gone
  BY DEF RefInv, WholeInv, CallOK, Open
<1>2. /\ Others(c) /\ call'[c].at = pc /\ call'[c].op = call[c].op /\ call'[c].name = call[c].name
      /\ call'[c].build = call[c].build /\ call'[c].answer = call[c].answer
  BY <1>1, Going
<1>3. \A n \in Names : NameKept(n)
  BY <1>1 DEF NameKept, InFile, RefInv, WholeInv, VolumeType, FilesApart
<1>4. Target(call'[c])
  BY <1>1, <1>2 DEF Target
<1> QED BY <1>1, <1>2, <1>3, <1>4, SilentStep

(* A name that is no empty file and has a file holds a build. *)
LEMMA Listed ==
  ASSUME RefInv, NEW n \in Names, json[n] # Gone, ~IsEmptyFile(n)
  PROVE  Saved[n] # NoBuild
<1>1. InFile(n) \in Builds
  BY DEF RefInv, WholeInv, NamesWhole, NamedText, IsEmptyFile
<1>2. Saved[n] = InFile(n)
  BY <1>1 DEF Saved
<1> QED BY <1>1, <1>2, DistinctAssumption

LEMMA LinkRef ==
  ASSUME RefInv, WholeInv', DistinctAssumption, TextAssumption, NEW c \in Callers, Link(c)
  PROVE  RefInv' /\ AbstractStep
<1>1. /\ call[c].at = "publish" /\ call[c].op = "new" /\ call[c].answer = "none"
      /\ call[c].name \in Names /\ Name(c) = call[c].name /\ UNCHANGED <<data, odd>>
      /\ Target(call[c]) /\ Role(c, call[c]) /\ VolumeType
  BY DEF Link, At, Name, RefInv, WholeInv, CallOK, Target
<1>2. CASE Free(c) /\ Publish(c)
  BY <1>1, <1>2, NamedStep DEF Free, Publish, Complete, Open
<1>3. CASE /\ ~Free(c) /\ UNCHANGED json
           /\ call' = [call EXCEPT ![c].at = "look",
                                   ![c].answer = IF InFile(Name(c)) = "empty" THEN "none" ELSE "taken"]
  <2> DEFINE told == IF InFile(Name(c)) = "empty" THEN "none" ELSE "taken"
  <2>1. PICK r : r = [call[c] EXCEPT !.at = "look", !.answer = told]
    OBVIOUS
  <2>2. /\ r.op = call[c].op /\ r.name = call[c].name /\ r.build = call[c].build
        /\ r.at = "look" /\ r.answer = told
    BY <1>1, <2>1 DEF VolumeType, CallRecord
  <2>3. call'[c] = r /\ Others(c)
    BY <1>1, <1>3, <2>1 DEF Others, VolumeType
  <2>4. /\ json[call[c].name] # Gone
        /\ told = IF IsEmptyFile(call[c].name) THEN "none" ELSE "taken"
    BY <1>1, <1>3 DEF Free, IsEmptyFile
  <2> HIDE DEF told
  <2>5. Target(r) /\ Role(c, r)
    BY <1>1, <2>2, <2>4 DEF Target, Role
  <2>6. RefInv' /\ Saved' = Saved
    BY <1>1, <1>3, <2>2, <2>3, <2>5, NamesUntouched, RefSame
  <2>7. CASE IsEmptyFile(call[c].name)
    <3>1. AbstractCalls' = AbstractCalls
      BY <1>1, <2>2, <2>3, <2>4, <2>7, CallsSame
    <3> QED BY <2>6, <3>1 DEF AbstractStep
  <2>8. CASE ~IsEmptyFile(call[c].name)
    <3>1. Saved[call[c].name] # NoBuild
      BY <1>1, <2>4, <2>8, Listed
    <3>2. Abstract!Answer(c, "taken")
      BY <2>2, <2>3, <2>4, <2>8, CallsAnswered
    <3>3. Abstract!SaveNew(c)
      BY <1>1, <2>6, <3>1, <3>2 DEF AbstractCalls, Abstract!SaveNew, Abstract!Pending, Abstract!Listed
    <3> QED BY <2>6, <3>3 DEF AbstractStep, Abstract!Next
  <2> QED BY <2>7, <2>8
<1> QED BY <1>2, <1>3 DEF Link

LEMMA LookRef ==
  ASSUME RefInv, WholeInv', NEW c \in Callers, Look(c)
  PROVE  RefInv' /\ AbstractStep
<1>1. /\ call[c].at = "look" /\ call[c].op = "new" /\ Name(c) = call[c].name
      /\ UNCHANGED <<json, data, odd>> /\ Target(call[c]) /\ VolumeType
  BY DEF Look, At, Name, RefInv, WholeInv
<1>2. \A n \in Names : NameKept(n)
  BY <1>1, NamesUntouched
<1>3. CASE IsEmptyFile(call[c].name)
  <2>1. Goto(c, "unlink")
    BY <1>1, <1>3 DEF Look
  <2>2. /\ Others(c) /\ call'[c].at = "unlink" /\ call'[c].op = call[c].op
        /\ call'[c].name = call[c].name /\ call'[c].build = call[c].build
        /\ call'[c].answer = call[c].answer
    BY <1>1, <2>1, Going
  <2>3. Target(call'[c])
    BY <1>1, <1>3, <2>2 DEF Target
  <2> QED BY <1>1, <1>2, <2>2, <2>3, SilentStep
<1>4. CASE ~IsEmptyFile(call[c].name)
  <2>1. Answer(c, "taken") /\ call[c].answer = "taken"
    BY <1>1, <1>4 DEF Look, Target
  <2>2. /\ Others(c) /\ call'[c].at = "reply" /\ call'[c].op = call[c].op
        /\ call'[c].name = call[c].name /\ call'[c].build = call[c].build
        /\ call'[c].answer = "taken"
    BY <1>1, <2>1, Answering
  <2>3. Target(call'[c])
    BY <1>1, <2>2 DEF Target
  <2> QED BY <1>1, <1>2, <2>1, <2>2, <2>3, SilentStep
<1> QED BY <1>3, <1>4

(* Only an empty file is removed, and only while nobody else saves its name. *)
LEMMA UnlinkRef ==
  ASSUME RefInv, WholeInv', TextAssumption, NEW c \in Callers, Unlink(c)
  PROVE  RefInv' /\ AbstractStep
<1>0. PICK n \in Names : n = call[c].name
  BY DEF Unlink, At, RefInv, WholeInv, CallOK
<1>1. /\ call[c].at = "unlink" /\ call[c].op = "new" /\ Name(c) = n
      /\ UNCHANGED <<data, odd>> /\ Target(call[c]) /\ VolumeType /\ json' = [json EXCEPT ![n] = Gone]
  BY <1>0 DEF Unlink, At, Name, RefInv, WholeInv
<1>2. IsEmptyFile(n) /\ json[n] # Gone
  BY <1>0, <1>1 DEF Target, IsEmptyFile
<1>3. Goto(c, "relink")
  BY <1>1, <1>2 DEF Unlink
<1>4. /\ Others(c) /\ call'[c].at = "relink" /\ call'[c].op = call[c].op
      /\ call'[c].name = call[c].name /\ call'[c].build = call[c].build
      /\ call'[c].answer = call[c].answer
  BY <1>1, <1>3, Going
<1>5. json'[n] = Gone /\ \A m \in Names \ {n} : json'[m] = json[m]
  BY <1>1 DEF VolumeType
<1>6. ~IsEmptyFile(n)'
  BY <1>0, <1>4, <1>5 DEF IsEmptyFile
<1>7. \A m \in Names \ {n} : NameKept(m)
  BY <1>1, <1>5 DEF NameKept, InFile
<1>8. n \in odd.leftover
  BY <1>2 DEF RefInv, WholeInv, NamesWhole, WholeFiles, IsEmptyFile, TextAssumption
<1>9. \A d \in Callers \ {c} : call[d].op # "none" /\ call[d].name = n =>
        call[d].op = "overwrite" /\ call[d].op = "delete"
  <2> SUFFICES ASSUME NEW d \in Callers \ {c}, call[d].op # "none", call[d].name = n PROVE FALSE
    OBVIOUS
  <2>1. call[d].op \in {"new", "overwrite", "delete"} /\ Target(call[d])
    BY DEF RefInv, WholeInv, VolumeType, CallRecord
  <2>2. call[d].op = "new"
    BY <1>2, <2>1 DEF Target
  <2> QED BY <1>0, <1>1, <1>8, <2>2 DEF RefInv, Alone
<1>10. Role(c, call'[c]) /\ Target(call[c])'
  BY <1>0, <1>1, <1>4, <1>6 DEF RefInv, Role, Target
<1>11. RefInv'
  BY <1>1, <1>4, <1>6, <1>7, <1>9, <1>10, RefChanged
<1>12. Saved' = Saved
  BY <1>2, <1>5, <1>7 DEF NameKept, Saved, IsEmptyFile, TextAssumption
<1>13. AbstractCalls' = AbstractCalls
  BY <1>4, CallsSame
<1> QED BY <1>11, <1>12, <1>13 DEF AbstractStep

LEMMA RelinkRef ==
  ASSUME RefInv, WholeInv', DistinctAssumption, TextAssumption, NEW c \in Callers, Relink(c)
  PROVE  RefInv' /\ AbstractStep
<1>1. /\ call[c].at = "relink" /\ call[c].op = "new" /\ call[c].answer = "none"
      /\ call[c].name \in Names /\ Name(c) = call[c].name /\ UNCHANGED <<data, odd>>
      /\ ~IsEmptyFile(call[c].name)
  BY DEF Relink, At, Name, RefInv, WholeInv, CallOK, Target
<1>2. CASE json[Name(c)] = Gone /\ Publish(c)
  BY <1>1, <1>2, NamedStep DEF Publish, Complete, Open
<1>3. CASE json[Name(c)] # Gone /\ Answer(c, "taken") /\ UNCHANGED json
  BY <1>1, <1>3, Listed, NamesUntouched, ToldStep
<1> QED BY <1>2, <1>3 DEF Relink

LEMMA ClaimRef ==
  ASSUME RefInv, WholeInv', TextAssumption, NEW c \in Callers, Claim(c)
  PROVE  RefInv' /\ AbstractStep
<1>1. /\ call[c].at \in {"publish", "relink"} /\ call[c].op = "new" /\ call[c].answer = "none"
      /\ call[c].name \in Names /\ Name(c) = call[c].name /\ UNCHANGED <<json, data, odd>>
      /\ call[c].name \in odd.refused /\ Target(call[c]) /\ VolumeType
  BY DEF Claim, At, Name, RefInv, WholeInv, CallOK, Target
<1>2. \A n \in Names : NameKept(n)
  BY <1>1, NamesUntouched
<1>3. CASE Free(c)
  <2>1. Goto(c, "move") /\ json[call[c].name] = Gone
    BY <1>1, <1>3 DEF Claim, Free
  <2>2. /\ Others(c) /\ call'[c].at = "move" /\ call'[c].op = call[c].op
        /\ call'[c].name = call[c].name /\ call'[c].build = call[c].build
        /\ call'[c].answer = call[c].answer
    BY <1>1, <2>1, Going
  <2>3. Target(call'[c])
    BY <1>1, <2>1, <2>2 DEF Target
  <2> QED BY <1>1, <1>2, <2>2, <2>3, SilentStep
<1>4. CASE ~Free(c)
  <2>1. Answer(c, "taken") /\ json[call[c].name] # Gone
    BY <1>1, <1>4 DEF Claim, Free
  <2>2. call[c].name \notin odd.leftover
    BY <1>1 DEF RefInv
  <2>3. ~IsEmptyFile(call[c].name)
    BY <1>1, <2>1, <2>2 DEF RefInv, WholeInv, NamesWhole, WholeFiles, IsEmptyFile, TextAssumption
  <2> QED BY <1>1, <1>2, <2>1, <2>3, Listed, ToldStep
<1> QED BY <1>3, <1>4

LEMMA ReplaceRef ==
  ASSUME RefInv, WholeInv', DistinctAssumption, TextAssumption, NEW c \in Callers, Replace(c)
  PROVE  RefInv' /\ AbstractStep
<1>1. /\ call[c].at = "replace" /\ call[c].op = "overwrite" /\ call[c].answer = "none"
      /\ Name(c) = call[c].name /\ UNCHANGED <<data, odd>>
  BY DEF Replace, At, Name, RefInv, Target
<1>2. call[c].file = tmp[Name(c)] /\ call[c].file # Gone
  BY <1>1 DEF RefInv, WholeInv, FilesApart, CallOK, Open
<1>3. json' = [json EXCEPT ![call[c].name] = call[c].file] /\ Answer(c, "ok")
  BY <1>1, <1>2 DEF Replace
<1> QED BY <1>1, <1>3, NamedStep DEF Complete, Open

(* The file a delete has found is still there. *)
LEMMA EraseRef ==
  ASSUME RefInv, WholeInv', DistinctAssumption, OneChanger, NEW c \in Callers, Erase(c)
  PROVE  RefInv' /\ AbstractStep
<1>0. PICK n \in Names : n = call[c].name
  BY DEF Erase, At, RefInv, WholeInv, CallOK
<1>1. /\ call[c].at = "erase" /\ call[c].op = "delete" /\ call[c].answer = "none" /\ Name(c) = n
      /\ UNCHANGED <<data, odd>> /\ Target(call[c]) /\ VolumeType /\ json' = [json EXCEPT ![n] = Gone]
  BY <1>0 DEF Erase, At, Name, RefInv, WholeInv, Target
<1>2. ~IsEmptyFile(n) /\ json[n] # Gone /\ Answer(c, "ok")
  BY <1>0, <1>1 DEF Target, Erase
<1>3. /\ Others(c) /\ call'[c].at = "reply" /\ call'[c].op = call[c].op
      /\ call'[c].name = call[c].name /\ call'[c].build = call[c].build /\ call'[c].answer = "ok"
  BY <1>1, <1>2, Answering
<1>4. json'[n] = Gone /\ \A m \in Names \ {n} : json'[m] = json[m]
  BY <1>1 DEF VolumeType
<1>5. ~IsEmptyFile(n)'
  BY <1>4 DEF IsEmptyFile
<1>6. \A m \in Names \ {n} : NameKept(m)
  BY <1>1, <1>4 DEF NameKept, InFile
<1>7. \A d \in Callers \ {c} : call[d].op \notin {"overwrite", "delete"}
  BY <1>1 DEF RefInv, Role, OneChanger
<1>8. Role(c, call'[c]) /\ Target(call[c])'
  BY <1>0, <1>1, <1>3, <1>5 DEF RefInv, Role, Target
<1>9. RefInv'
  BY <1>1, <1>2, <1>3, <1>4, <1>5, <1>6, <1>7, <1>8, RefChanged
<1>10. Saved' = [Saved EXCEPT ![n] = NoBuild] /\ Saved[n] # NoBuild
  BY <1>2, <1>4, <1>6, Listed DEF NameKept, Saved
<1>11. Abstract!Answer(c, "ok")
  BY <1>3, CallsAnswered
<1>12. Abstract!Delete(c)
  BY <1>0, <1>1, <1>10, <1>11 DEF AbstractCalls, Abstract!Delete, Abstract!Pending, Abstract!Listed,
     Abstract!Holds
<1> QED BY <1>9, <1>12 DEF AbstractStep, Abstract!Next

(* A death takes no build, and tells nobody. *)
LEMMA DieRef ==
  ASSUME RefInv, WholeInv', Die
  PROVE  RefInv' /\ AbstractStep
<1>1. /\ Idle.op = "none" /\ Idle.name = "none" /\ Idle.build = NoBuild /\ Idle.answer = "none"
      /\ Idle.at = "idle"
  BY DEF Idle
<1>2. /\ \A c \in Callers : call'[c] = Idle
      /\ UNCHANGED <<json, odd>>
  BY DEF Die
<1>3. RefInv'
  BY <1>1, <1>2 DEF RefInv, Role, Target, Alone
<1>4. Saved' = Saved
  <2>1. \A n \in Names : json[n] # Gone => data'[json[n]] = data[json[n]]
    BY DEF Die, RefInv, WholeInv, VolumeType, NamesWhole, NamedText
  <2> QED BY <1>2, <2>1 DEF Saved, InFile
<1>5. AbstractCalls' = [c \in Callers |-> Abstract!Idle]
  BY <1>1, <1>2 DEF AbstractCalls, Abstract!Idle
<1> QED BY <1>3, <1>4, <1>5 DEF AbstractStep, AbstractCalls, Abstract!Next, Abstract!Die

LEMMA RefStep ==
  ASSUME RefInv, OneChanger, [Next]_vars
  PROVE  RefInv' /\ AbstractStep
<1>0. WholeInv' /\ DistinctAssumption /\ TextAssumption
  BY WholeStep, DistinctAssumption, TextAssumption DEF RefInv, OneOverwriter, OneChanger
<1>1. ASSUME NEW c \in Callers, NEW op \in {"new", "overwrite", "delete"}, NEW n \in Names,
             NEW b \in Builds \cup {NoBuild}, Ask(c, op, n, b)
      PROVE  RefInv' /\ AbstractStep
  BY <1>0, <1>1, AskRef
<1>2. ASSUME NEW c \in Callers, Reply(c) PROVE RefInv' /\ AbstractStep
  BY <1>0, <1>2, ReplyRef
<1>3. ASSUME NEW c \in Callers, Check(c) PROVE RefInv' /\ AbstractStep
  BY <1>0, <1>3, CheckRef
<1>4. ASSUME NEW c \in Callers, Create(c) PROVE RefInv' /\ AbstractStep
  BY <1>0, <1>4, CreateRef
<1>5. ASSUME NEW c \in Callers, Write(c) PROVE RefInv' /\ AbstractStep
  BY <1>0, <1>5, WriteRef DEF Write
<1>6. ASSUME NEW c \in Callers, Flush(c) PROVE RefInv' /\ AbstractStep
  <2>1. PICK row : data' = [data EXCEPT ![call[c].file] = row]
    BY <1>6 DEF Flush
  <2>2. /\ call[c].at = "flush" /\ UNCHANGED <<json, odd>>
        /\ call[c].op \in {"new", "overwrite"}
    BY <1>6 DEF Flush, RefInv, WholeInv, CallOK, Open
  <2>3. CASE call[c].op = "new"
    BY <1>0, <1>6, <2>1, <2>2, <2>3, WriteRef DEF Flush
  <2>4. CASE call[c].op = "overwrite"
    BY <1>0, <1>6, <2>1, <2>2, <2>4, WriteRef DEF Flush
  <2> QED BY <2>2, <2>3, <2>4
<1>7. ASSUME NEW c \in Callers, CallFails(c) PROVE RefInv' /\ AbstractStep
  <2>1. /\ Answer(c, "error") /\ UNCHANGED <<json, data, odd>> /\ call[c].op # "none"
        /\ call[c].answer = "none"
    BY <1>7 DEF CallFails, RefInv, WholeInv, CallOK, Target
  <2> QED BY <1>0, <2>1, NamesUntouched, ToldStep
<1>8. ASSUME NEW c \in Callers, Link(c) PROVE RefInv' /\ AbstractStep
  BY <1>0, <1>8, LinkRef
<1>9. ASSUME NEW c \in Callers, Look(c) PROVE RefInv' /\ AbstractStep
  BY <1>0, <1>9, LookRef
<1>10. ASSUME NEW c \in Callers, Unlink(c) PROVE RefInv' /\ AbstractStep
  BY <1>0, <1>10, UnlinkRef
<1>11. ASSUME NEW c \in Callers, Relink(c) PROVE RefInv' /\ AbstractStep
  BY <1>0, <1>11, RelinkRef
<1>12. ASSUME NEW c \in Callers, Claim(c) PROVE RefInv' /\ AbstractStep
  BY <1>0, <1>12, ClaimRef
<1>13. ASSUME NEW c \in Callers, Move(c) PROVE RefInv' /\ AbstractStep
  <2>1. /\ call[c].at = "move" /\ call[c].op = "new" /\ call[c].answer = "none"
        /\ json[call[c].name] = Gone /\ UNCHANGED <<data, odd>> /\ Publish(c)
    BY <1>13 DEF Move, At, RefInv, Target
  <2> QED BY <1>0, <2>1, NamedStep DEF Publish, Name, Complete, Open
<1>14. ASSUME NEW c \in Callers, Replace(c) PROVE RefInv' /\ AbstractStep
  BY <1>0, <1>14, ReplaceRef
<1>15. ASSUME NEW c \in Callers, Erase(c) PROVE RefInv' /\ AbstractStep
  BY <1>0, <1>15, EraseRef
<1>16. CASE Die
  BY <1>0, <1>16, DieRef
<1>17. CASE UNCHANGED vars
  <2>1. RefInv'
    BY <1>0, <1>17 DEF vars, RefInv, Role, Target, Alone, IsEmptyFile, InFile
  <2>2. Saved' = Saved /\ AbstractCalls' = AbstractCalls
    BY <1>17 DEF vars, Saved, InFile, AbstractCalls
  <2> QED BY <2>1, <2>2 DEF AbstractStep
<1> QED
  BY <1>1, <1>2, <1>3, <1>4, <1>5, <1>6, <1>7, <1>8, <1>9, <1>10, <1>11, <1>12, <1>13, <1>14,
     <1>15, <1>16, <1>17 DEF Next

LEMMA RefStart == ASSUME Init PROVE RefInv /\ Abstract!Init
<1>1. /\ Idle.op = "none" /\ Idle.name = "none" /\ Idle.build = NoBuild
      /\ Idle.at = "idle" /\ Idle.answer = "none"
  BY DEF Idle
<1>2. \A c \in Callers : call[c] = Idle
  BY DEF Init
<1>3. RefInv
  <2>1. \A c \in Callers : Role(c, call[c]) /\ Target(call[c])
    BY <1>1, <1>2 DEF Role, Target
  <2>2. Alone
    BY <1>1, <1>2 DEF Alone
  <2>3. odd.leftover \cap odd.refused = {}
    BY DEF Init
  <2> QED BY <2>1, <2>2, <2>3, WholeInit DEF RefInv
<1>4. Saved \in [Names -> Builds \cup {NoBuild}]
  BY DEF Saved
<1>5. AbstractCalls = [c \in Callers |-> Abstract!Idle]
  BY <1>1, <1>2 DEF AbstractCalls, Abstract!Idle
<1> QED BY <1>3, <1>4, <1>5 DEF Abstract!Init, AbstractCalls

(* Saving, overwriting and deleting builds is atomic: every call changes   *)
(* the saved builds at one instant, or not at all and answers an error, in *)
(* every order of the file system calls and whenever the game dies, while  *)
(* no two callers overwrite or delete.                                     *)
THEOREM ImplementsSavedBuilds == ASSUME OneChanger PROVE Spec => Implements
<1>1. Init => RefInv /\ Abstract!Init
  BY RefStart
<1>2. RefInv /\ [Next]_vars => RefInv' /\ AbstractStep
  BY RefStep
<1>3. AbstractStep => [Abstract!Next]_<<Saved, AbstractCalls>>
  BY DEF AbstractStep
<1> QED BY <1>1, <1>2, <1>3, PTL DEF Spec, Implements, Abstract!Spec, AbstractCalls
=============================================================================
