---------------------------- MODULE FileStreamProofs ---------------------------
(***************************************************************************)
(* Proofs about FileStream: its type, what a visitor is given, and that a  *)
(* file under the parser's calls is a CommandStream, for every set of      *)
(* files of the layout that FilesAssumption states.                        *)
(***************************************************************************)
EXTENDS FileStream, TLAPS

\* What FilesAssumption says of the file on the disk.
LEMMA FileFacts ==
  ASSUME file \in Files
  PROVE  /\ file.count \in Nat /\ file.length \in Nat
         /\ file.start \in [1..file.count + 1 -> Nat]
         /\ file.header \in [1..file.count -> Nat \ {0, 1}]
         /\ file.body \in [1..file.count -> Nat]
         /\ file.known \in [1..file.count -> BOOLEAN]
         /\ file.tick \in [1..file.count -> Nat \cup {-1}]
         /\ file.file_info \in 0..file.count
         /\ \A i \in 1..file.count : file.start[i + 1] = file.start[i] + file.header[i] + file.body[i]
         /\ \A i, j \in 1..file.count + 1 : i < j => file.start[i] < file.start[j]
         /\ file.length \in Start..End
         /\ \A i \in 1..file.count + 1 : file.start[i] \in Start..End
<1>1. /\ file.count \in Nat
      /\ file.start \in [1..file.count + 1 -> Nat]
      /\ \A i, j \in 1..file.count + 1 : i < j => file.start[i] < file.start[j]
  BY FilesAssumption
<1>2. ASSUME NEW i \in 1..file.count + 1
      PROVE  file.start[i] \in Start..End
  <2>1. 1 \in 1..file.count + 1 /\ file.count + 1 \in 1..file.count + 1  BY <1>1
  <2>2. /\ i = 1 \/ file.start[1] < file.start[i]
        /\ i = file.count + 1 \/ file.start[i] < file.start[file.count + 1]
    BY <1>1, <2>1
  <2>3. file.start[i] \in Nat /\ file.start[1] \in Nat /\ file.start[file.count + 1] \in Nat
    BY <1>1, <2>1
  <2> QED  BY <2>2, <2>3 DEF Start, End
<1> QED  BY <1>1, <1>2, FilesAssumption DEF Start, End

\* The place of the reader is found from where it is.
LEMMA PlaceAt ==
  ASSUME file \in Files, NEW i \in 1..file.count + 1
  PROVE  AtCommand(file.start[i]) /\ PlaceOf(file.start[i]) = i - 1
<1> DEFINE k == CHOOSE j \in 1..file.count + 1 : file.start[j] = file.start[i]
<1>1. k \in 1..file.count + 1 /\ file.start[k] = file.start[i]  OBVIOUS
<1>2. k = i  BY <1>1, FileFacts
<1>3. AtCommand(file.start[i])  BY DEF AtCommand
<1> QED  BY <1>2, <1>3 DEF PlaceOf

\* Between the starts of two commands there is no other.
LEMMA MidCommand ==
  ASSUME file \in Files, NEW i \in Commands, NEW p \in Int,
         file.start[i] < p, p < file.start[i + 1]
  PROVE  ~AtCommand(p) /\ PlaceOf(p) = -1
<1>1. ~AtCommand(p)
  <2> SUFFICES ASSUME NEW j \in 1..file.count + 1, file.start[j] = p
               PROVE  FALSE
    BY DEF AtCommand
  <2>1. file.count \in Nat /\ i \in 1..file.count + 1 /\ i + 1 \in 1..file.count + 1
    BY FileFacts DEF Commands
  <2>2. file.start[i] \in Nat /\ file.start[i + 1] \in Nat /\ file.start[j] \in Nat
    BY <2>1, FileFacts
  <2>3. i < j => i + 1 = j \/ i + 1 < j  BY <2>1
  <2>4. j < i => file.start[j] < file.start[i]  BY <2>1, FileFacts
  <2>5. i + 1 < j => file.start[i + 1] < file.start[j]  BY <2>1, FileFacts
  <2> QED  BY <2>1, <2>2, <2>3, <2>4, <2>5
<1> QED  BY <1>1 DEF PlaceOf

\* A place is a number of commands, or none.
LEMMA PlaceType ==
  ASSUME file \in Files, NEW p
  PROVE  PlaceOf(p) \in 0..file.count \cup {-1}
<1>1. CASE AtCommand(p)
  <2> PICK i \in 1..file.count + 1 : file.start[i] = p  BY <1>1 DEF AtCommand
  <2> QED  BY PlaceAt, FileFacts
<1> QED  BY <1>1 DEF PlaceOf

\* Where the parts of a command are.
LEMMA CommandFacts ==
  ASSUME file \in Files, NEW i \in Commands
  PROVE  /\ i \in Nat \ {0} /\ i \in 1..file.count + 1 /\ i + 1 \in 1..file.count + 1
         /\ file.start[i] \in Nat /\ file.header[i] \in Nat \ {0, 1} /\ file.body[i] \in Nat
         /\ BodyAt(i) = file.start[i] + file.header[i]
         /\ file.start[i + 1] = BodyAt(i) + file.body[i]
         /\ file.start[i] \in Start..End /\ file.start[i + 1] \in Start..End
<1>1. i \in Nat \ {0} /\ i \in 1..file.count + 1 /\ i + 1 \in 1..file.count + 1
  BY FileFacts DEF Commands
<1>2. file.start[i] \in Nat /\ file.header[i] \in Nat \ {0, 1} /\ file.body[i] \in Nat
  BY <1>1, FileFacts DEF Commands
<1> QED  BY <1>1, <1>2, FileFacts DEF Commands, BodyAt

\* Where a header that cannot be read leaves the reader: where it was, or inside the
\* command.
LEMMA FailedPlace ==
  ASSUME file \in Files, NEW i \in 1..file.count + 1, i \in Commands => ~Readable(i)
  PROVE  /\ FailsAt(i) \in 0..End + 1
         /\ \/ FailsAt(i) = file.start[i]
            \/ i \in Commands /\ PlaceOf(FailsAt(i)) = -1
               /\ (~file.known[i] \/ file.length # End)
<1>0. /\ file.length \in Nat /\ file.length \in Start..End /\ Start \in Nat /\ End \in Nat
      /\ file.start[i] \in Nat /\ file.start[i] \in Start..End
  BY SMTT(60), FileFacts DEF Start, End
<1>1. CASE file.start[i] >= file.length
  BY <1>0, <1>1 DEF FailsAt
<1>2. CASE file.start[i] < file.length
  <2>1. i \in Commands
    <3>1. i = file.count + 1 => file.start[i] = End  BY DEF End
    <3> QED  BY SMTT(60), <1>0, <1>2, <3>1, FileFacts DEF Commands
  <2>2. /\ file.header[i] \in Nat \ {0, 1} /\ file.body[i] \in Nat
        /\ file.start[i + 1] = BodyAt(i) + file.body[i] /\ BodyAt(i) = file.start[i] + file.header[i]
        /\ file.start[i + 1] \in Start..End
    BY <2>1, CommandFacts
  <2>3. CASE file.known[i]
    <3>1. FailsAt(i) = file.length  BY <1>0, <1>2, <2>3 DEF FailsAt
    <3>2. file.length < BodyAt(i)  BY <1>0, <2>1, <2>2, <2>3 DEF Readable
    <3>3. file.length < file.start[i + 1]  BY <1>0, <2>2, <3>2
    <3>4. PlaceOf(file.length) = -1  BY <1>0, <1>2, <2>1, <3>3, MidCommand
    <3> QED  BY <1>0, <2>1, <2>2, <3>1, <3>3, <3>4
  <2>4. CASE ~file.known[i]
    <3>1. FailsAt(i) = file.start[i] + 1  BY <1>0, <1>2, <2>4 DEF FailsAt
    <3>2. file.start[i] + 1 < file.start[i + 1]  BY <1>0, <2>2
    <3>3. PlaceOf(file.start[i] + 1) = -1  BY <1>0, <2>1, <3>2, MidCommand
    <3> QED  BY <1>0, <2>1, <2>2, <2>4, <3>1, <3>2, <3>3
  <2> QED  BY <2>3, <2>4
<1> QED  BY <1>0, <1>1, <1>2

------------------------------------------------------------------------------
(* The type.                                                               *)

\* The type, that the disk holds one of the files, and that the header which is held
\* could be read.
TypeInv == TypeOK /\ file \in Files /\ (held # 0 => Readable(held))

\* Every position that the stream comes to is one that the type allows.
LEMMA Positions ==
  ASSUME file \in Files
  PROVE  /\ Start \in 0..End + 1 /\ file.length \in 0..End + 1 /\ End \in Nat
         /\ \A i \in 1..file.count + 1 : file.start[i] \in 0..End + 1
         /\ \A i \in Commands : BodyAt(i) \in 0..End + 1
<1>1. /\ Start \in Nat /\ End \in Nat /\ Start <= End /\ file.length \in Start..End
      /\ \A i \in 1..file.count + 1 : file.start[i] \in Start..End
  BY FileFacts DEF Start, End
<1>2. ASSUME NEW i \in Commands
      PROVE  BodyAt(i) \in 0..End + 1
  BY <1>1, CommandFacts
<1> QED  BY <1>1, <1>2

LEMMA TypeInvariant == Spec => []TypeInv
<1>1. Init => TypeInv
  BY Positions, FileFacts, CallsAssumption DEF Init, TypeInv, TypeOK, NoTicks
<1>2. TypeInv /\ [Next]_vars => TypeInv'
  <2> SUFFICES ASSUME TypeInv, [Next]_vars
               PROVE  TypeInv'
    OBVIOUS
  <2>0. file \in Files /\ file.count \in Nat /\ End \in Nat /\ MaxCalls \in Nat /\ rdr \in 0..End + 1
    BY Positions, FileFacts, CallsAssumption DEF TypeInv, TypeOK
  <2>1. ASSUME NEW p \in 0..End + 1,
               NEW name \in {"run", "run_seekable", "scan_full_packet_ticks"}, Begin(name, p)
        PROVE  TypeInv'
    BY <2>0, <2>1, PlaceType DEF Begin, TypeInv, TypeOK, End, BodyAt
  <2>2. CASE Run  BY <2>0, <2>1, <2>2 DEF Run
  <2>3. CASE RunSeekable  BY <2>0, <2>1, <2>3, Positions DEF RunSeekable, reset
  <2>4. CASE Scan  BY <2>0, <2>1, <2>4, Positions DEF Scan, reset
  <2>5. CASE ReadHeader
    <3>1. PICK i \in Commands : Readable(i) /\ held' = i /\ rdr' = BodyAt(i)  BY <2>5 DEF ReadHeader
    <3>2. i \in 1..file.count /\ i # 0 /\ BodyAt(i) \in 0..End + 1
      BY <2>0, <3>1, Positions DEF Commands
    <3> QED  BY <2>0, <2>5, <3>1, <3>2 DEF ReadHeader, TypeInv, TypeOK, End, BodyAt, Readable
  <2>6. ASSUME NEW outcome \in {"ok", "error"}, EndCall(outcome), rdr' \in 0..End + 1
        PROVE  TypeInv'
    BY <2>0, <2>6 DEF EndCall, TypeInv, TypeOK, End
  <2>7. CASE HeaderFails
    <3>1. CASE \E i \in 1..file.count + 1 :
                 /\ i \in Commands => ~Readable(i)
                 /\ \E outcome \in {"ok", "error"} :
                      EndCall(outcome) /\ (rdr' = Start \/ rdr' = FailsAt(i))
      <4> PICK i \in 1..file.count + 1, outcome \in {"ok", "error"} :
                 /\ i \in Commands => ~Readable(i)
                 /\ EndCall(outcome) /\ (rdr' = Start \/ rdr' = FailsAt(i))
        BY <3>1
      <4>1. FailsAt(i) \in 0..End + 1
        BY <2>0, FailedPlace
      <4> QED  BY <2>0, <2>6, <4>1, Positions
    <3>2. CASE \E outcome \in {"ok", "error"} : EndCall(outcome) /\ rdr' = rdr
      BY <2>0, <2>6, <3>2
    <3> QED  BY <2>7, <3>1, <3>2 DEF HeaderFails, reset
  <2>8. CASE Wander  BY <2>0, <2>6, <2>8 DEF Wander, Anywhere
  <2>9. ASSUME pc = "command"
        PROVE  /\ held \in Commands /\ rdr = BodyAt(held)
               /\ rdr + file.body[held] = file.start[held + 1]
               /\ rdr + file.body[held] \in 0..End + 1
               /\ rdr - file.header[held] = file.start[held]
               /\ rdr - file.header[held] \in 0..End + 1
    <3>1. held \in Commands /\ rdr = BodyAt(held)  BY <2>0, <2>9 DEF TypeInv, TypeOK, Commands
    <3> QED  BY <2>0, <3>1, CommandFacts, Positions
  <2>10. CASE Handle
    <3>1. rdr' \in 0..End + 1  BY <2>9, <2>10 DEF Handle
    <3>2. CASE EndCall("error")  BY <2>6, <3>1, <3>2
    <3>3. CASE pc' = "header" /\ held' = 0 /\ UNCHANGED <<file, total_ticks, call, result, calls>>
      BY <2>0, <3>1, <3>3 DEF TypeInv, TypeOK, End
    <3> QED  BY <2>10, <3>2, <3>3 DEF Handle
  <2>11. CASE BodyIsCut  BY <2>0, <2>6, <2>11, Positions DEF BodyIsCut
  <2>12. CASE skip_cmd  BY <2>0, <2>9, <2>12 DEF skip_cmd, TypeInv, TypeOK, End
  <2>13. CASE Break  BY <2>6, <2>9, <2>13 DEF Break, unread_cmd_header
  <2>14. ASSUME NEW p \in 0..End + 1, NEW ticks \in Int, NEW outcome \in {"ok", "error"},
                Ask(ticks, p, outcome)
         PROVE  TypeInv'
    BY <2>0, <2>14, PlaceType DEF Ask, TypeInv, TypeOK, End, BodyAt
  <2>15. CASE file_info
    <3>1. CASE HasFileInfo /\ Ask(file.tick[file.file_info], Backup(rdr), "ok")
      <4>1. file.tick[file.file_info] \in Int  BY <2>0, <3>1, FileFacts DEF HasFileInfo
      <4> QED  BY <2>0, <2>14, <3>1, <4>1 DEF Backup
    <3>2. CASE \E p \in Anywhere : Ask(NoTicks, p, "error")
      BY <2>14, <3>2 DEF Anywhere, NoTicks
    <3>3. CASE /\ file.file_info # 0
               /\ Ask(NoTicks, IF Readable(file.file_info) THEN file.length ELSE FailsAt(file.file_info), "error")
      <4>1. file.file_info \in 1..file.count + 1  BY <2>0, <3>3, FileFacts
      <4>2. ~Readable(file.file_info) => FailsAt(file.file_info) \in 0..End + 1
        BY <2>0, <4>1, FailedPlace
      <4> QED  BY <2>0, <2>14, <3>3, <4>2, Positions DEF NoTicks
    <3> QED  BY <2>15, <3>1, <3>2, <3>3 DEF file_info
  <2>16. CASE scan_for_last_tick
    <3>1. ASSUME NEW i \in 1..file.count + 1, NEW k \in 1..file.count + 1, i <= k,
                 k \in Commands => ~Readable(k),
                 IF is_at_eof(FailsAt(k)) THEN Ask(LastTick(i, k), Backup(rdr), "ok")
                 ELSE Ask(NoTicks, FailsAt(k), "error")
          PROVE  TypeInv'
      <4>1. FailsAt(k) \in 0..End + 1  BY <2>0, <3>1, FailedPlace
      <4>2. LastTick(i, k) \in Int
        <5>1. file.tick \in [1..file.count -> Int]  BY <2>0, FileFacts
        <5>2. k # i => k - 1 \in 1..file.count  BY <2>0, <3>1
        <5>3. k # i => file.tick[k - 1] \in Int  BY <5>1, <5>2
        <5>4. CASE k = i  BY <5>4 DEF LastTick
        <5>5. CASE k # i  BY <5>3, <5>5 DEF LastTick
        <5> QED  BY <5>4, <5>5
      <4> QED  BY <2>0, <2>14, <3>1, <4>1, <4>2 DEF Backup, NoTicks
    <3>2. CASE Ask(-1, rdr, "ok") \/ Ask(NoTicks, rdr, "error")
      BY <2>0, <2>14, <3>2 DEF NoTicks
    <3>3. CASE \E p \in Anywhere, ticks \in {-1, NoTicks} :
                 Ask(ticks, p, IF ticks = NoTicks THEN "error" ELSE "ok")
      BY <2>14, <3>3 DEF Anywhere, NoTicks
    <3> QED  BY <2>16, <3>1, <3>2, <3>3 DEF scan_for_last_tick
  <2>17. CASE UNCHANGED vars  BY <2>17 DEF vars, TypeInv, TypeOK, End, BodyAt, Readable
  <2> QED
    BY <2>2, <2>3, <2>4, <2>5, <2>7, <2>8, <2>10, <2>11, <2>12, <2>13, <2>15, <2>16, <2>17 DEF Next
<1> QED  BY <1>1, <1>2, PTL DEF Spec

\* A stream always has its type, whatever the parser is asked for and however a call
\* fails.
THEOREM TypeCorrect == Spec => []TypeOK
<1>1. TypeInv => TypeOK  BY DEF TypeInv
<1> QED  BY <1>1, TypeInvariant, PTL

------------------------------------------------------------------------------
(* The refinement.                                                         *)

LEMMA FileIsKept == [Next]_vars => file' = file
BY DEF Next, vars, Run, RunSeekable, Scan, Begin, ReadHeader, HeaderFails, Wander, Handle,
       BodyIsCut, skip_cmd, Break, file_info, scan_for_last_tick, EndCall, Ask

\* Every step of the file's is a step of the stream of commands, or none.
LEMMA StepRefines == TypeInv /\ [Next]_vars => [Stream!Next]_(Stream!streamVars)
<1> SUFFICES ASSUME TypeInv, [Next]_vars
             PROVE  [Stream!Next]_(Stream!streamVars)
  OBVIOUS
<1> DEFINE place == IF held # 0 THEN held - 1 ELSE PlaceOf(rdr)
<1>0. /\ file \in Files /\ file.count \in Nat /\ file.length \in Nat /\ rdr \in Int
      /\ held \in 0..file.count /\ file.length \in Start..End /\ Start \in Nat /\ End \in Nat
      /\ Commands = 1..file.count
  <2>1. file \in Files  BY DEF TypeInv
  <2>2. Start \in Nat /\ End \in Nat  BY <2>1, Positions
  <2> QED  BY <2>1, <2>2, FileFacts DEF TypeInv, TypeOK, Commands
<1>1. file' = file  BY FileIsKept
<1>2. Quality' = Quality  BY <1>1 DEF Quality, HasFileInfo, Readable, BodyAt, End, Commands
<1>3. place' = IF held' # 0 THEN held' - 1 ELSE PlaceOf(rdr')  BY <1>1 DEF PlaceOf, AtCommand
<1>4. held # 0 <=> pc = "command"  BY DEF TypeInv, TypeOK
<1> USE DEF Stream!Next, Stream!streamVars
<1>5. CASE held' = held /\ place' = place  BY <1>1, <1>2, <1>5
<1>6. CASE held = 0 /\ held' = 0 /\ rdr' = Start
  <2>1. PlaceOf(rdr') = 0  BY <1>0, <1>6, PlaceAt DEF Start
  <2> QED  BY <1>1, <1>2, <1>3, <1>6, <2>1 DEF Stream!Rewind
<1>7. CASE held' = 0 /\ Quality # "sound" /\ PlaceOf(rdr') = -1
  BY <1>1, <1>2, <1>3, <1>7 DEF Stream!GoAstray, Stream!Astray
<1>8. CASE held = 0 /\ held' = 0 /\ (PlaceOf(rdr) = -1 \/ Quality = "unfinished")
  BY <1>0, <1>1, <1>2, <1>3, <1>8, PlaceType DEF Stream!Wander, Stream!Astray, Stream!Places
<1>9. CASE held # 0 /\ held' = 0 /\ rdr' = file.start[held + 1]
  <2>1. PlaceOf(rdr') = held  BY <1>0, <1>9, PlaceAt
  <2> QED  BY <1>1, <1>2, <1>3, <1>9, <2>1 DEF Stream!Consume
<1>10. ASSUME held # 0
       PROVE  /\ held \in Commands /\ rdr = BodyAt(held) /\ Readable(held)
              /\ rdr + file.body[held] = file.start[held + 1]
              /\ rdr - file.header[held] = file.start[held] /\ file.start[held] < rdr
  <2>1. held \in Commands /\ rdr = BodyAt(held) /\ Readable(held)
    BY <1>0, <1>10 DEF TypeInv, TypeOK
  <2>2. /\ file.start[held] \in Nat /\ file.header[held] \in Nat \ {0, 1} /\ file.body[held] \in Nat
        /\ BodyAt(held) = file.start[held] + file.header[held]
        /\ file.start[held + 1] = BodyAt(held) + file.body[held]
    BY <1>0, <2>1, CommandFacts
  <2> HIDE DEF place
  <2>3. rdr + file.body[held] = file.start[held + 1]  BY <2>1, <2>2
  <2>4. rdr - file.header[held] = file.start[held] /\ file.start[held] < rdr
    <3> DEFINE s == file.start[held]
               h == file.header[held]
    <3>1. rdr = s + h /\ s \in Nat /\ h \in Nat \ {0, 1}  BY <2>1, <2>2
    <3> HIDE DEF s, h
    <3>2. rdr - h = s /\ s < rdr  BY <3>1
    <3> QED  BY <3>2 DEF s, h
  <2> QED  BY <2>1, <2>3, <2>4
<1>11. CASE Run  BY <1>3, <1>5, <1>11 DEF Run, Begin
<1>12. CASE RunSeekable \/ Scan
  BY <1>4, <1>6, <1>12 DEF RunSeekable, Scan, Begin, reset
<1>13. CASE ReadHeader
  <2>1. PICK i \in Commands : rdr = file.start[i] /\ held' = i  BY <1>13 DEF ReadHeader
  <2>2. PlaceOf(rdr) = i - 1 /\ i - 1 \in 0..file.count - 1 /\ i \in Nat \ {0}
    BY <1>0, <2>1, PlaceAt
  <2>3. held = 0  BY <1>4, <1>13 DEF ReadHeader
  <2> QED  BY <1>1, <1>2, <1>3, <2>1, <2>2, <2>3 DEF Stream!ReadHeader
\* What is left where a header, the k-th, cannot be read.
<1>14. ASSUME held = 0, held' = 0, NEW k \in 1..file.count + 1,
              k \in Commands => ~Readable(k), rdr' = FailsAt(k)
       PROVE  \/ rdr' = file.start[k] /\ PlaceOf(rdr') = k - 1
              \/ Quality # "sound" /\ PlaceOf(rdr') = -1
  <2>1. CASE FailsAt(k) = file.start[k]  BY <1>0, <1>14, <2>1, PlaceAt
  <2>2. CASE FailsAt(k) # file.start[k]
    <3>1. k \in Commands /\ PlaceOf(FailsAt(k)) = -1 /\ (~file.known[k] \/ file.length # End)
      BY <1>0, <1>14, <2>2, FailedPlace
    <3> QED  BY <1>14, <3>1 DEF Quality
  <2> QED  BY <2>1, <2>2
<1>15. CASE HeaderFails
  <2>0. held = 0  BY <1>4, <1>15 DEF HeaderFails
  <2>1. ASSUME NEW k \in 1..file.count + 1, rdr = file.start[k], k \in Commands => ~Readable(k),
               held' = 0, rdr' = Start \/ rdr' = FailsAt(k)
        PROVE  [Stream!Next]_(Stream!streamVars)
    <3>1. CASE rdr' = Start  BY <1>6, <2>0, <2>1, <3>1
    <3>2. CASE rdr' = FailsAt(k)  BY <1>3, <1>5, <1>7, <1>14, <2>0, <2>1, <3>2
    <3> QED  BY <2>1, <3>1, <3>2
  <2>2. CASE held' = 0 /\ rdr' = rdr  BY <1>3, <1>5, <2>0, <2>2
  <2> QED  BY <1>15, <2>1, <2>2 DEF HeaderFails, EndCall, reset
<1>16. CASE Wander  BY <1>4, <1>8, <1>16 DEF Wander, EndCall, PlaceOf
<1>17. CASE Handle  BY <1>4, <1>9, <1>10, <1>17 DEF Handle, EndCall
<1>18. CASE BodyIsCut
  <2>1. held # 0 /\ held' = 0 /\ rdr' = file.length /\ rdr + file.body[held] > file.length
    BY <1>4, <1>18 DEF BodyIsCut, EndCall
  <2>2. file.start[held] < file.length
    BY SMTT(60), <1>0, <1>10, <2>1, CommandFacts DEF Readable
  <2>3. PlaceOf(file.length) = -1  BY <1>0, <1>10, <2>1, <2>2, MidCommand
  <2>4. file.length # End  BY <1>0, <1>10, <2>1, CommandFacts
  <2> QED  BY <1>7, <2>1, <2>3, <2>4 DEF Quality
<1>19. CASE skip_cmd  BY <1>4, <1>9, <1>10, <1>19 DEF skip_cmd
<1>20. CASE Break
  <2>1. held # 0 /\ held' = 0 /\ rdr' = file.start[held]
    BY <1>4, <1>10, <1>20 DEF Break, EndCall, unread_cmd_header
  <2>2. PlaceOf(rdr') = held - 1  BY <1>0, <1>10, <2>1, PlaceAt
  <2> QED  BY <1>1, <1>2, <1>3, <2>1, <2>2 DEF Stream!PutBack
<1>21. CASE file_info
  <2>1. held = 0 /\ held' = 0  BY <1>4, <1>21 DEF file_info, Ask
  <2>2. CASE HasFileInfo /\ rdr' = Backup(rdr)  BY <1>3, <1>5, <2>1, <2>2 DEF Backup
  <2>3. CASE ~HasFileInfo /\ file.format = "demo"
    BY <1>8, <2>1, <2>3 DEF Quality
  <2>4. file.file_info = 0 => ~HasFileInfo  BY DEF HasFileInfo
  <2> QED  BY <1>21, <2>2, <2>3, <2>4 DEF file_info, Ask
<1>22. CASE scan_for_last_tick
  <2>1. held = 0 /\ held' = 0  BY <1>4, <1>22 DEF scan_for_last_tick, Ask
  <2>2. CASE rdr' = rdr  BY <1>3, <1>5, <2>1, <2>2
  <2>3. ASSUME NEW i \in 1..file.count + 1, NEW k \in 1..file.count + 1,
               rdr = file.start[i], i <= k, k \in Commands => ~Readable(k),
               rdr' = FailsAt(k), ~is_at_eof(FailsAt(k))
        PROVE  [Stream!Next]_(Stream!streamVars)
    <3>1. PlaceOf(rdr) = i - 1  BY <1>0, <2>3, PlaceAt
    <3>2. CASE Quality # "sound" /\ PlaceOf(rdr') = -1  BY <1>7, <2>1, <3>2
    <3>3. CASE rdr' = file.start[k] /\ PlaceOf(rdr') = k - 1 /\ i = k
      BY <1>2, <1>3, <1>5, <2>1, <3>1, <3>3
    <3>4. CASE rdr' = file.start[k] /\ PlaceOf(rdr') = k - 1 /\ i < k
      <4>1. file.length # End
        <5>1. file.start[k] \in Nat /\ file.start[k] <= End  BY <1>0, FileFacts
        <5> QED  BY <1>0, <2>3, <3>4, <5>1 DEF FailsAt, is_at_eof
      <4>2. Quality # "sound"  BY <4>1 DEF Quality
      <4>3. k - 1 \in i - 1 + 1..file.count  BY <1>0, <3>4
      <4> QED  BY <1>1, <1>2, <1>3, <2>1, <3>1, <3>4, <4>2, <4>3 DEF Stream!RunAhead
    <3>5. i = k \/ i < k  BY <1>0, <2>3
    <3> QED  BY <1>14, <2>1, <2>3, <3>2, <3>3, <3>4, <3>5
  <2>4. CASE ~AtCommand(rdr)  BY <1>8, <2>1, <2>4 DEF PlaceOf
  <2> QED  BY <1>22, <2>2, <2>3, <2>4 DEF scan_for_last_tick, Ask, Backup
<1>23. CASE UNCHANGED vars  BY <1>3, <1>5, <1>23 DEF vars
<1> QED
  BY <1>11, <1>12, <1>13, <1>15, <1>16, <1>17, <1>18, <1>19, <1>20, <1>21, <1>22, <1>23 DEF Next

\* Whatever the files and however they are damaged, a file with the parser's calls on it
\* implements the stream of commands that the parser takes it for.
THEOREM RefinesCommandStream == Spec => IsCommandStream
<1>1. Init => Stream!Init
  <2> SUFFICES ASSUME Init PROVE Stream!Init  OBVIOUS
  <2>1. file \in Files /\ rdr = file.start[1] /\ held = 0  BY DEF Init, Start
  <2>2. file.count \in Nat /\ PlaceOf(rdr) = 0  BY <2>1, FileFacts, PlaceAt
  <2> QED  BY <2>1, <2>2 DEF Stream!Init, Quality
<1>2. TypeInv /\ [Next]_vars => [Stream!Next]_(Stream!streamVars)  BY StepRefines
<1> QED  BY <1>1, <1>2, TypeInvariant, PTL DEF Spec, IsCommandStream, Stream!Spec

------------------------------------------------------------------------------
(* What a visitor is given.                                                *)

Place == IF held # 0 THEN held - 1 ELSE PlaceOf(rdr)

\* What ties the commands that were given to the place of the stream, while a call runs:
\* a run has given all from where it began, and all that was given is behind.
GivenInv ==
  /\ given \in Seq([of : 0..file.count, at : Int])
  /\ GivenAsRecorded
  /\ pc # "idle" =>
       IF Place = -1 THEN call.name = "run" /\ call.from = -1 /\ given = <<>>
       ELSE /\ call.name = "run" => Place = call.from + Len(given)
            /\ \A n \in DOMAIN given : given[n].of # 0 /\ given[n].of <= Place

\* A call begins with nothing given.
LEMMA NothingGiven ==
  ASSUME given' = <<>>
  PROVE  /\ (given \in Seq([of : 0..file.count, at : Int]))' /\ GivenAsRecorded'
         /\ \A n \in DOMAIN given' : FALSE
BY DEF GivenAsRecorded

LEMMA GivenStep == TypeInv /\ TypeInv' /\ GivenInv /\ [Next]_vars => GivenInv'
<1> SUFFICES ASSUME TypeInv, TypeInv', GivenInv, [Next]_vars
             PROVE  GivenInv'
  OBVIOUS
<1>0. /\ file \in Files /\ file.count \in Nat /\ rdr \in Int /\ held \in 0..file.count
      /\ (held # 0 <=> pc = "command") /\ call.from \in 0..file.count \cup {-1}
  BY FileFacts DEF TypeInv, TypeOK
<1>1. file' = file  BY FileIsKept
<1>2. Place' = IF held' # 0 THEN held' - 1 ELSE PlaceOf(rdr')
  BY <1>1 DEF Place, PlaceOf, AtCommand
<1>3. given \in Seq([of : 0..file.count, at : Int]) /\ GivenAsRecorded
  BY DEF GivenInv
<1>30. \A n \in DOMAIN given : given[n].of \in 0..file.count
  <2> SUFFICES ASSUME NEW n \in DOMAIN given PROVE given[n].of \in 0..file.count
    OBVIOUS
  <2> DEFINE Given == [of : 0..file.count, at : Int]
  <2>1. given[n] \in Given
    <3> HIDE DEF Given
    <3>1. given \in Seq(Given)  BY <1>3 DEF Given
    <3> QED  BY <3>1
  <2> QED  BY <2>1
<1>4. given' = given /\ call' = call
      => (given \in Seq([of : 0..file.count, at : Int]))' /\ GivenAsRecorded'
  BY <1>1, <1>3 DEF GivenAsRecorded, BodyAt
<1>5. CASE given' = given /\ call' = call /\ pc' = "idle"  BY <1>4, <1>5 DEF GivenInv
<1>6. CASE given' = <<>> /\ pc' = "idle"  BY <1>6, NothingGiven DEF GivenInv
<1>7. ASSUME NEW p, NEW name, Begin(name, p),
             PlaceOf(p) = -1 => name = "run"
      PROVE  GivenInv'
  <2>1. given' = <<>> /\ held' = 0 /\ rdr' = p /\ call'.name = name /\ call'.from = PlaceOf(p)
    BY <1>0, <1>7 DEF Begin
  <2>2. PlaceOf(p) \in 0..file.count \cup {-1}  BY <1>0, PlaceType
  <2> QED  BY <1>2, <1>7, <2>1, <2>2, NothingGiven DEF GivenInv
<1>8. CASE Run  BY <1>7, <1>8 DEF Run
<1>9. CASE RunSeekable \/ Scan
  <2>1. PlaceOf(Start) = 0  BY <1>0, PlaceAt DEF Start
  <2> QED  BY <1>7, <1>9, <2>1 DEF RunSeekable, Scan, reset
<1>10. ASSUME pc = "command"
       PROVE  /\ held \in Commands /\ rdr = BodyAt(held) /\ Place = held - 1 /\ Place # -1
              /\ rdr + file.body[held] = file.start[held + 1]
              /\ PlaceOf(file.start[held + 1]) = held /\ held # -1
  <2>1. held \in Commands /\ rdr = BodyAt(held) /\ Place = held - 1 /\ Place # -1
    BY <1>0, <1>10 DEF TypeInv, TypeOK, Commands, Place
  <2>2. /\ rdr + file.body[held] = file.start[held + 1] /\ held + 1 \in 1..file.count + 1
        /\ held \in Nat
    BY <1>0, <2>1, CommandFacts
  <2>3. PlaceOf(file.start[held + 1]) = held  BY <1>0, <2>2, PlaceAt
  <2> QED  BY <2>1, <2>2, <2>3
<1>11. CASE ReadHeader
  <2>1. PICK i \in Commands : rdr = file.start[i] /\ held' = i  BY <1>11 DEF ReadHeader
  <2>2. PlaceOf(rdr) = i - 1 /\ i \in Nat \ {0}  BY <1>0, <2>1, PlaceAt, CommandFacts
  <2>3. Place' = Place /\ pc # "idle" /\ given' = given /\ call' = call
    BY <1>0, <1>2, <1>11, <2>1, <2>2 DEF ReadHeader, Place
  <2> QED  BY <1>4, <2>3 DEF GivenInv
<1>12. CASE HeaderFails
  BY <1>5, <1>12 DEF HeaderFails, EndCall
<1>13. CASE Wander
  <2>1. Place = -1 /\ pc # "idle" /\ pc' = "idle" /\ call' = call
    BY <1>0, <1>13 DEF Wander, Place, PlaceOf, EndCall
  <2>2. given' = Append(given, [of |-> 0, at |-> rdr])  BY <1>13 DEF Wander
  <2>3. given' = <<[of |-> 0, at |-> rdr]>> /\ call'.name = "run" /\ call'.from = -1
    BY <2>1, <2>2 DEF GivenInv
  <2>4. GivenAsRecorded'  BY <2>3 DEF GivenAsRecorded
  <2>5. [of |-> 0, at |-> rdr] \in [of : 0..file.count, at : Int]  BY <1>0
  <2> QED  BY <1>1, <2>1, <2>3, <2>4, <2>5 DEF GivenInv
<1>14. CASE Handle
  <2>1. /\ pc = "command" /\ call' = call /\ given' = Append(given, [of |-> held, at |-> rdr])
        /\ rdr' = file.start[held + 1] /\ held' = 0 /\ file.start[held + 1] <= file.length
    BY <1>10, <1>14 DEF Handle, EndCall
  <2>2. /\ call.name = "run" => held = call.from + Len(given) + 1
        /\ \A n \in DOMAIN given : given[n].of # 0 /\ given[n].of <= held - 1
    BY <1>0, <1>3, <1>10, <2>1 DEF GivenInv
  <2>3. Place' = held  BY <1>2, <1>10, <2>1
  <2>4. [of |-> held, at |-> rdr] \in [of : 0..file.count, at : Int]  BY <1>0
  <2>5. /\ given' \in Seq([of : 0..file.count, at : Int]) /\ Len(given') = Len(given) + 1
        /\ DOMAIN given' = 1..Len(given) + 1 /\ DOMAIN given = 1..Len(given) /\ Len(given) \in Nat
        /\ \A n \in 1..Len(given) : given'[n] = given[n]
        /\ given'[Len(given) + 1] = [of |-> held, at |-> rdr]
    BY <1>3, <2>1, <2>4
  <2>6. ASSUME NEW n \in 1..Len(given) + 1
        PROVE  /\ given'[n].of # 0 /\ given'[n].of <= held
               /\ given'[n].at = BodyAt(given'[n].of) /\ file.start[given'[n].of + 1] <= file.length
               /\ call.name = "run" => given'[n].of = call.from + n
               /\ \A m \in 1..n - 1 : given'[m].of < given'[n].of
    <3>1. CASE n \in 1..Len(given)
      <4>1. given'[n] = given[n] /\ \A m \in 1..n - 1 : given'[m] = given[m]  BY <2>5, <3>1
      <4>2. given[n].of # 0 /\ given[n].of <= held - 1 /\ given[n].of \in 0..file.count
        BY <1>30, <2>2, <2>5, <3>1
      <4>3. /\ given[n].at = BodyAt(given[n].of) /\ file.start[given[n].of + 1] <= file.length
            /\ call.name = "run" => given[n].of = call.from + n
            /\ \A m \in 1..n - 1 : given[m].of < given[n].of
        BY <1>3, <2>5, <3>1, <4>2 DEF GivenAsRecorded
      <4>4. given[n].of <= held  BY <1>0, <4>2
      <4> QED  BY <4>1, <4>2, <4>3, <4>4
    <3>2. CASE n = Len(given) + 1
      <4>1. given'[n].of = held /\ given'[n].at = rdr  BY <2>5, <3>2
      <4>2. ASSUME NEW m \in 1..n - 1
            PROVE  given'[m].of < held
        <5>1. m \in DOMAIN given /\ given'[m] = given[m]  BY <2>5, <3>2, <4>2
        <5>2. given[m].of <= held - 1 /\ given[m].of \in Int  BY <1>0, <1>30, <2>2, <5>1
        <5> QED  BY <1>0, <5>1, <5>2
      <4>3. call.name = "run" => held = call.from + n  BY <1>0, <2>2, <2>5, <3>2
      <4>4. held # 0 /\ held <= held /\ rdr = BodyAt(held) /\ file.start[held + 1] <= file.length
        BY <1>0, <1>10, <2>1
      <4> QED  BY <4>1, <4>2, <4>3, <4>4
    <3> QED  BY <2>5, <2>6, <3>1, <3>2
  <2>7. GivenAsRecorded'
    BY <1>1, <2>1, <2>5, <2>6 DEF GivenAsRecorded, BodyAt
  <2>8. held = call.from + Len(given') \/ call.name # "run"  BY SMTT(60), <1>0, <2>2, <2>5
  <2> QED  BY <1>1, <1>10, <2>1, <2>3, <2>5, <2>6, <2>7, <2>8 DEF GivenInv
<1>15. CASE BodyIsCut \/ Break  BY <1>5, <1>15 DEF BodyIsCut, Break, EndCall
<1>16. CASE skip_cmd
  <2>1. Place' = held /\ given' = given /\ call' = call /\ pc = "command" /\ call.name # "run"
    BY <1>2, <1>10, <1>16 DEF skip_cmd
  <2>2. ASSUME NEW n \in DOMAIN given
        PROVE  given[n].of # 0 /\ given[n].of <= held
    <3>1. given[n].of \in Int  BY <1>0, <1>30
    <3> QED  BY <1>0, <1>10, <2>1, <3>1 DEF GivenInv
  <2> QED  BY <1>4, <1>10, <2>1, <2>2 DEF GivenInv
<1>17. CASE file_info \/ scan_for_last_tick
  <2>1. ASSUME NEW ticks, NEW p, NEW outcome, Ask(ticks, p, outcome)
        PROVE  GivenInv'
    BY <1>6, <2>1 DEF Ask
  <2> QED  BY <1>17, <2>1 DEF file_info, scan_for_last_tick
<1>18. CASE UNCHANGED vars
  <2>1. Place' = Place /\ given' = given /\ call' = call /\ pc' = pc
    BY <1>2, <1>18 DEF vars, Place
  <2> QED  BY <1>4, <2>1 DEF GivenInv
<1> QED
  BY <1>8, <1>9, <1>11, <1>12, <1>13, <1>14, <1>15, <1>16, <1>17, <1>18 DEF Next

\* Every body that a visitor is given is whole and from its own place, and they come in
\* the order of the file, whatever failed before.
THEOREM GivenCorrect == Spec => []GivenAsRecorded
<1>1. Init => GivenInv
  BY DEF Init, GivenInv, GivenAsRecorded
<1>2. TypeInv /\ TypeInv' /\ GivenInv /\ [Next]_vars => GivenInv'  BY GivenStep
<1>3. GivenInv => GivenAsRecorded  BY DEF GivenInv
<1> QED  BY <1>1, <1>2, <1>3, TypeInvariant, PTL DEF Spec

------------------------------------------------------------------------------
(* The end of a file, and the ticks it has.                                *)

\* A header that cannot be read ends a call well just where the file ends.
LEMMA EndOfFile ==
  ASSUME file \in Files, NEW k \in 1..file.count + 1
  PROVE  EndsAt(k) <=> (k \in Commands => ~Readable(k)) /\ is_at_eof(FailsAt(k))
<1>1. /\ file.length \in Nat /\ file.start[k] \in Nat /\ file.length <= End
      /\ k \in Commands => /\ BodyAt(k) \in Nat /\ file.start[k] < BodyAt(k)
                           /\ BodyAt(k) = file.start[k] + file.header[k]
                           /\ file.header[k] \in Nat \ {0, 1}
  <2>1. file.length \in Nat /\ file.start[k] \in Nat /\ file.length \in Start..End
    BY FileFacts
  <2>2. Start \in Nat /\ End \in Nat  BY Positions
  <2>3. ASSUME k \in Commands
        PROVE  /\ BodyAt(k) = file.start[k] + file.header[k]
               /\ file.header[k] \in Nat \ {0, 1}
    BY <2>3, CommandFacts
  <2> QED  BY <2>1, <2>2, <2>3
<1>2. k \notin Commands => file.start[k] = End  BY FileFacts DEF Commands, End
<1>3. CASE k \in Commands  BY <1>1, <1>3 DEF EndsAt, is_at_eof, FailsAt, Readable
<1>4. CASE k \notin Commands  BY <1>1, <1>2, <1>4 DEF EndsAt, is_at_eof, FailsAt
<1> QED  BY <1>3, <1>4

\* The starts are in order.
LEMMA StartsInOrder ==
  ASSUME file \in Files, NEW i \in 1..file.count + 1, NEW k \in 1..file.count + 1, i <= k
  PROVE  file.start[i] <= file.start[k] /\ file.start[i] \in Nat /\ file.start[k] \in Nat
<1>1. file.start[i] \in Nat /\ file.start[k] \in Nat  BY FileFacts
<1>2. i = k \/ i < k  BY FileFacts
<1> QED  BY <1>1, <1>2, FileFacts

\* Asked in place, the total of ticks that is kept is the last one of the file, and
\* nothing is moved by the asking.
THEOREM TicksCorrect == Spec => TicksAreLast
<1> DEFINE Asked ==
      total_ticks' # total_ticks /\ PlaceOf(rdr) # -1 =>
        /\ rdr' = rdr
        /\ \/ file.format = "demo" /\ total_ticks' = file.tick[file.file_info]
           \/ \E k \in Commands :
                /\ rdr < BodyAt(k) /\ total_ticks' = file.tick[k]
                /\ EndsAt(k + 1)
           \/ EndsAt(PlaceOf(rdr) + 1) /\ total_ticks' = -1
<1>1. TypeInv /\ [Next]_vars => [Asked]_vars
  <2> SUFFICES ASSUME TypeInv, Next, total_ticks' # total_ticks, PlaceOf(rdr) # -1
               PROVE  Asked
    OBVIOUS
  <2>0. file \in Files /\ file.count \in Nat /\ Commands = 1..file.count
    BY FileFacts DEF TypeInv, Commands
  <2>1. file_info \/ scan_for_last_tick
    BY DEF Next, Run, RunSeekable, Scan, Begin, ReadHeader, HeaderFails, Wander, Handle,
           BodyIsCut, skip_cmd, Break, EndCall
  <2>2. ASSUME NEW p, Ask(NoTicks, p, "error")
        PROVE  FALSE
    BY <2>2 DEF Ask
  <2>3. CASE file_info
    <3>1. Ask(file.tick[file.file_info], Backup(rdr), "ok") /\ file.format = "demo"
      BY <2>2, <2>3 DEF file_info
    <3> QED  BY <3>1 DEF Ask, Backup
  <2>4. CASE scan_for_last_tick
    <3>0. AtCommand(rdr)  BY DEF PlaceOf
    <3>1. PICK i \in 1..file.count + 1, k \in 1..file.count + 1 :
            /\ rdr = file.start[i] /\ i <= k
            /\ k \in Commands => ~Readable(k)
            /\ is_at_eof(FailsAt(k)) /\ Ask(LastTick(i, k), Backup(rdr), "ok")
      BY <2>2, <2>4, <3>0 DEF scan_for_last_tick
    <3>2. rdr' = rdr /\ total_ticks' = LastTick(i, k) /\ EndsAt(k) /\ PlaceOf(rdr) = i - 1
      BY <2>0, <3>1, EndOfFile, PlaceAt DEF Ask, Backup
    <3>3. CASE k = i
      <4>1. PlaceOf(rdr) + 1 = k  BY <3>2, <3>3
      <4> QED  BY <3>2, <3>3, <4>1 DEF LastTick
    <3>4. CASE k # i
      <4>1. k - 1 \in Commands /\ k - 1 \in 1..file.count + 1 /\ i <= k - 1 /\ k - 1 + 1 = k
        BY <2>0, <3>1, <3>4
      <4>2. file.start[i] <= file.start[k - 1] /\ file.start[i] \in Nat /\ file.start[k - 1] \in Nat
        BY <2>0, <4>1, StartsInOrder
      <4>3. BodyAt(k - 1) = file.start[k - 1] + file.header[k - 1] /\ file.header[k - 1] \in Nat \ {0, 1}
        BY <2>0, <4>1, CommandFacts
      <4>4. rdr < BodyAt(k - 1)  BY <3>1, <4>2, <4>3
      <4>5. total_ticks' = file.tick[k - 1]  BY <3>2, <3>4 DEF LastTick
      <4> QED  BY <3>2, <4>1, <4>4, <4>5
    <3> QED  BY <3>3, <3>4
  <2> QED  BY <2>1, <2>3, <2>4
<1> QED  BY <1>1, TypeInvariant, PTL DEF Spec, TicksAreLast

\* While a call runs, what is behind the stream was whole: a run has read it, and a scan
\* has read its headers.
EndInv ==
  /\ EndIsTheFiles
  /\ pc # "idle" /\ call.from # -1 =>
       /\ call.name = "run" =>
            \A i \in call.from + 1..Place : file.known[i] /\ file.start[i + 1] <= file.length
       /\ call.name = "scan_full_packet_ticks" => call.from = 0 /\ \A i \in 1..Place : Readable(i)

LEMMA EndStep == TypeInv /\ GivenInv /\ EndInv /\ [Next]_vars => EndInv'
<1> SUFFICES ASSUME TypeInv, GivenInv, EndInv, [Next]_vars
             PROVE  EndInv'
  OBVIOUS
<1>0. /\ file \in Files /\ file.count \in Nat /\ rdr \in Int /\ held \in 0..file.count
      /\ (held # 0 <=> pc = "command") /\ call.from \in 0..file.count \cup {-1}
      /\ Commands = 1..file.count
      /\ held # 0 => rdr = BodyAt(held) /\ Readable(held)
  BY FileFacts DEF TypeInv, TypeOK, Commands
<1>1. file' = file /\ \A i \in Commands : Readable(i)' = Readable(i)
  BY FileIsKept DEF Readable, BodyAt
<1>2. Place' = IF held' # 0 THEN held' - 1 ELSE PlaceOf(rdr')
  BY <1>1 DEF Place, PlaceOf, AtCommand
<1>3. call' = call => \A k : WholeUpTo(k)' = WholeUpTo(k)
  BY <1>1 DEF WholeUpTo, EndsAt, Commands, BodyAt
<1>4. Place \in 0..file.count \cup {-1}  BY <1>0, PlaceType DEF Place
<1>5. CASE pc # "idle" /\ pc' = "idle" /\ call' = call
           /\ (call.name # "run" \/ result' # "ok") /\ call.name # "scan_full_packet_ticks"
  BY <1>5 DEF EndInv, EndIsTheFiles
<1>6. ASSUME NEW p, NEW name, Begin(name, p), name = "scan_full_packet_ticks" => p = Start
      PROVE  EndInv'
  <2>1. held' = 0 /\ rdr' = p /\ call'.name = name /\ call'.from = PlaceOf(p) /\ pc' = "header"
    BY <1>0, <1>6 DEF Begin
  <2>2. PlaceOf(p) \in 0..file.count \cup {-1}  BY <1>0, PlaceType
  <2>3. Place' = PlaceOf(p)  BY <1>2, <2>1
  <2>4. PlaceOf(Start) = 0  BY <1>0, PlaceAt DEF Start
  <2> QED  BY <1>6, <2>1, <2>2, <2>3, <2>4 DEF EndInv, EndIsTheFiles
<1>7. CASE Run \/ RunSeekable \/ Scan
  BY <1>6, <1>7 DEF Run, RunSeekable, Scan, reset
<1>8. CASE ReadHeader
  <2>1. PICK i \in Commands : rdr = file.start[i] /\ held' = i  BY <1>8 DEF ReadHeader
  <2>2. PlaceOf(rdr) = i - 1 /\ i \in Nat \ {0}  BY <1>0, <2>1, PlaceAt, CommandFacts
  <2>3. Place' = Place /\ pc # "idle" /\ pc' # "idle" /\ call' = call
    BY <1>0, <1>2, <1>8, <2>1, <2>2 DEF ReadHeader, Place
  <2> QED  BY <1>0, <1>1, <1>4, <2>3 DEF EndInv, EndIsTheFiles
\* A call that ends at a header which cannot be read, the k-th.
<1>9. CASE HeaderFails /\ call.from # -1
  <2>0. Place # -1 /\ Place = PlaceOf(rdr) /\ pc # "idle" /\ AtCommand(rdr)
    BY <1>0, <1>9 DEF HeaderFails, GivenInv, Place, PlaceOf
  <2>1. PICK k \in 1..file.count + 1 :
          /\ rdr = file.start[k] /\ (k \in Commands => ~Readable(k))
          /\ EndCall(IF is_at_eof(FailsAt(k)) THEN "ok" ELSE "error") /\ given' = given
    BY <1>9, <2>0 DEF HeaderFails
  <2>2. Place = k - 1 /\ PlaceOf(rdr) = k - 1  BY <1>0, <2>0, <2>1, PlaceAt
  <2>3. /\ pc' = "idle" /\ call' = call
        /\ result' = "ok" <=> is_at_eof(FailsAt(k))
    BY <2>1 DEF EndCall
  <2>4. result' = "ok" <=> EndsAt(k)  BY <1>0, <2>1, <2>3, EndOfFile
  <2>5. CASE call.name = "run"
    <3>1. k = call.from + Len(given') + 1
      <4>1. Place = call.from + Len(given) /\ Len(given) \in Nat
        BY <2>0, <2>5 DEF GivenInv
      <4> QED  BY <1>0, <2>1, <2>2, <4>1
    <3>2. result' = "ok" => WholeUpTo(k)
      BY <1>9, <2>0, <2>2, <2>4, <2>5 DEF EndInv, WholeUpTo
    <3>3. result' = "ok" => WholeUpTo(k)'  BY <1>3, <2>3, <3>2
    <3> QED  BY <2>3, <2>5, <3>1, <3>3 DEF EndInv, EndIsTheFiles
  <2>6. CASE call.name = "scan_full_packet_ticks"
    <3>1. call.from = 0 /\ \A i \in 1..k - 1 : Readable(i)
      BY <1>9, <2>0, <2>2, <2>6 DEF EndInv
    <3>2. ASSUME EndsAt(k), NEW i \in 1..k - 1
          PROVE  file.known[i] /\ file.start[i + 1] <= file.length
      <4>1. i \in Commands /\ i + 1 \in 1..file.count + 1 /\ i + 1 <= k  BY <1>0
      <4>2. file.start[k] <= file.length  BY <1>0, <3>2, FileFacts DEF EndsAt
      <4>3. file.start[i + 1] <= file.start[k] /\ file.start[i + 1] \in Nat /\ file.start[k] \in Nat
        BY <1>0, <4>1, StartsInOrder
      <4>4. file.length \in Nat  BY <1>0, FileFacts
      <4> QED  BY <3>1, <4>2, <4>3, <4>4 DEF Readable
    <3>3. EndsAt(k) => WholeUpTo(k)  BY <3>1, <3>2 DEF WholeUpTo
    <3>4. ASSUME NEW j \in 1..file.count + 1, WholeUpTo(j)
          PROVE  EndsAt(k)
      <4>1. EndsAt(j) /\ (j \in Commands => ~Readable(j))
        BY <1>0, <3>4, EndOfFile DEF WholeUpTo
      <4>2. ~(j < k)
        <5>1. j < k => j \in 1..k - 1 /\ j \in Commands  BY <1>0
        <5> QED  BY <3>1, <4>1, <5>1
      <4>3. ~(k < j)
        <5> SUFFICES ASSUME k < j PROVE FALSE  OBVIOUS
        <5>1. k \in Commands /\ k \in call.from + 1..j - 1  BY <1>0, <3>1
        <5>2. file.known[k] /\ file.start[k + 1] <= file.length  BY <3>4, <5>1 DEF WholeUpTo
        <5>3. /\ file.start[k + 1] = BodyAt(k) + file.body[k] /\ file.body[k] \in Nat
              /\ BodyAt(k) = file.start[k] + file.header[k]
              /\ file.start[k] \in Nat /\ file.header[k] \in Nat
          BY <1>0, <5>1, CommandFacts
        <5>4. file.length \in Nat  BY <1>0, FileFacts
        <5>5. BodyAt(k) <= file.length  BY <5>2, <5>3, <5>4
        <5> QED  BY <2>1, <5>1, <5>2, <5>5 DEF Readable
      <4>4. j = k  BY <4>2, <4>3
      <4> QED  BY <4>1, <4>4
    <3>5. result' = "ok" <=> \E j \in 1..file.count + 1 : WholeUpTo(j)  BY <2>4, <3>3, <3>4
    <3>6. result' = "ok" <=> \E j \in 1..file.count + 1 : WholeUpTo(j)'  BY <1>3, <2>3, <3>5
    <3> QED  BY <1>1, <2>3, <2>6, <3>6 DEF EndInv, EndIsTheFiles
  <2>7. CASE call.name # "run" /\ call.name # "scan_full_packet_ticks"
    BY <2>3, <2>7 DEF EndInv, EndIsTheFiles
  <2> QED  BY <2>5, <2>6, <2>7
<1>10. CASE HeaderFails /\ call.from = -1
  BY <1>10 DEF HeaderFails, EndCall, EndInv, EndIsTheFiles
<1>11. CASE Wander
  <2>1. call.from = -1 /\ call' = call /\ pc' = "idle"
    BY <1>0, <1>11 DEF Wander, GivenInv, Place, PlaceOf, EndCall
  <2> QED  BY <2>1 DEF EndInv, EndIsTheFiles
<1>12. ASSUME pc = "command"
       PROVE  /\ held \in Commands /\ Place = held - 1 /\ held \in Nat \ {0}
              /\ rdr + file.body[held] = file.start[held + 1]
              /\ PlaceOf(file.start[held + 1]) = held /\ Readable(held)
  <2>1. held \in Commands /\ rdr = BodyAt(held) /\ Place = held - 1 /\ Readable(held)
    BY <1>0, <1>12 DEF Place
  <2>2. /\ rdr + file.body[held] = file.start[held + 1] /\ held + 1 \in 1..file.count + 1
        /\ held \in Nat \ {0}
    BY <1>0, <2>1, CommandFacts
  <2>3. PlaceOf(file.start[held + 1]) = held  BY <1>0, <2>2, PlaceAt
  <2> QED  BY <2>1, <2>2, <2>3
<1>13. CASE Handle
  <2>1. CASE EndCall("error")  BY <1>5, <1>13, <2>1 DEF Handle, EndCall
  <2>2. CASE pc' = "header" /\ held' = 0 /\ call' = call
    <3>1. Place' = held /\ file.known[held] /\ file.start[held + 1] <= file.length
      BY <1>2, <1>12, <1>13, <2>2 DEF Handle, Readable
    <3>2. call.from # -1 /\ call.name = "run" =>
            \A i \in call.from + 1..held : file.known[i] /\ file.start[i + 1] <= file.length
      BY <1>0, <1>12, <1>13, <3>1 DEF Handle, EndInv
    <3> QED  BY <1>1, <1>13, <2>2, <3>1, <3>2 DEF Handle, EndInv, EndIsTheFiles
  <2> QED  BY <1>13, <2>1, <2>2 DEF Handle
<1>14. CASE BodyIsCut \/ Break  BY <1>5, <1>14 DEF BodyIsCut, Break, EndCall
<1>15. CASE skip_cmd
  <2>1. Place' = held /\ call' = call /\ pc = "command" /\ call.name # "run" /\ pc' = "header"
    BY <1>2, <1>12, <1>15 DEF skip_cmd
  <2>2. call.from # -1 /\ call.name = "scan_full_packet_ticks" =>
          call.from = 0 /\ \A i \in 1..held : Readable(i) /\ i \in Commands
    BY <1>0, <1>12, <2>1 DEF EndInv
  <2> QED  BY <1>1, <2>1, <2>2 DEF EndInv, EndIsTheFiles
<1>16. CASE file_info \/ scan_for_last_tick
  <2>1. ASSUME NEW ticks, NEW p, NEW outcome, Ask(ticks, p, outcome)
        PROVE  EndInv'
    BY <2>1 DEF Ask, EndInv, EndIsTheFiles
  <2> QED  BY <1>16, <2>1 DEF file_info, scan_for_last_tick
<1>17. CASE UNCHANGED vars
  <2>1. Place' = Place /\ given' = given /\ call' = call /\ pc' = pc /\ result' = result
    BY <1>2, <1>17 DEF vars, Place
  <2>2. \A i \in 1..Place : i \in Commands  BY <1>0, <1>4
  <2>3. EndIsTheFiles'  BY <1>1, <1>3, <2>1 DEF EndInv, EndIsTheFiles
  <2> QED  BY <1>1, <2>1, <2>2, <2>3 DEF EndInv
<1> QED
  BY <1>7, <1>8, <1>9, <1>10, <1>11, <1>13, <1>14, <1>15, <1>16, <1>17 DEF Next

\* A call that ended well has all that the file holds, and a scan fails on no file that
\* could be scanned.
THEOREM EndCorrect == Spec => []EndIsTheFiles
<1>1. Init => GivenInv /\ EndInv
  BY DEF Init, GivenInv, GivenAsRecorded, EndInv, EndIsTheFiles
<1>2. TypeInv /\ TypeInv' /\ GivenInv /\ [Next]_vars => GivenInv'  BY GivenStep
<1>3. TypeInv /\ GivenInv /\ EndInv /\ [Next]_vars => EndInv'  BY EndStep
<1>4. EndInv => EndIsTheFiles  BY DEF EndInv
<1> QED  BY <1>1, <1>2, <1>3, <1>4, TypeInvariant, PTL DEF Spec

==============================================================================
