-------------------------- MODULE RotatingLogProofs --------------------------
(***************************************************************************)
(* Theorems about RotatingLog, for any limit, any number of backups, any   *)
(* sizes of lines, any faults and any number of lines.                     *)
(***************************************************************************)
EXTENDS RotatingLog, FiniteSetTheorems, TLAPS

\* A file that is not there holds nothing.
Blank == \A i \in Files : i \notin exists => lines[i] = {} /\ bytes[i] = 0

\* Only lines that were logged are kept.
Numbered == \A i \in Files : \A l \in lines[i] : l \in 1..last

\* The open file is the newest: once a fresh one could not be opened there is
\* none in front of it.
NewestOpen == pc # "down" => \A i \in Files : i < handle => i \notin exists

\* While files can be opened and written, the counter is the size of the file.
Counted ==
  faults \cap {"open", "write"} = {} =>
    /\ pc \in {"idle", "write"} => counter = bytes[handle]
    /\ pc = "write" => counter < Limit

Lossless == faults \cap {"rename", "write"} = {}

\* While renames and writes succeed, a backup holds lines, a rotation has been
\* called for by lines, and the place a file is moved to has been vacated.
Rotating == pc \in {"shift", "open"} => counter >= Limit
Filled ==
  /\ \A i \in Files : bytes[i] > 0 => lines[i] # {}
  /\ \A i \in Files : i > 0 /\ i \in exists => lines[i] # {}
  /\ pc # "down" /\ counter > 0 => lines[handle] # {}
Vacated ==
  /\ pc = "shift" /\ n < Backups - 1 => n + 1 \notin exists
  /\ pc = "open" => 0 \notin exists

IInv ==
  /\ TypeOK
  /\ InOrder
  /\ Blank
  /\ Numbered
  /\ NewestOpen
  /\ Counted
  /\ Bounded
  /\ Rotating
  /\ Lossless => Filled /\ Vacated

-----------------------------------------------------------------------------
\* The constants, and the names of files, as the provers use them.
LEMMA Sizes ==
  /\ Backups \in Nat /\ Backups > 0 /\ Limit \in Nat /\ Limit > 0
  /\ \A size \in LineSizes : size \in Nat /\ size > 0
BY ConstantsAssumption

LEMMA FileNumbers == \A i : i \in Files <=> i \in Nat /\ i <= Backups
BY Sizes DEF Files

\* A rename moves one file onto the next.
LEMMA RenamedFiles ==
  ASSUME NEW S, NEW f \in [Files -> S], NEW nothing \in S, n \in 0..(Backups - 1)
  PROVE  /\ Renamed(f, nothing) \in [Files -> S]
         /\ \A i \in Files : Renamed(f, nothing)[i] =
              IF i = n THEN nothing ELSE IF i = n + 1 THEN f[n] ELSE f[i]
<1>1. n \in Files /\ n + 1 \in Files /\ n # n + 1
  BY Sizes, FileNumbers
<1> QED BY <1>1 DEF Renamed

\* While log() runs the open file has a name, and what is renamed is it or a
\* file behind it.
LEMMA HandleNamed ==
  ASSUME TypeOK, NewestOpen, Rename, pc = "shift"
  PROVE  /\ n \in Files /\ n + 1 \in Files /\ n \in Nat
         /\ handle \in exists /\ handle \in Nat /\ handle <= n
         /\ handle' = IF handle = n THEN n + 1 ELSE handle
         /\ handle' \in exists' /\ handle' \in Files
<1>1. n \in Files /\ n + 1 \in Files /\ n \in Nat
  BY Sizes, FileNumbers DEF TypeOK
<1>2. handle \in exists /\ handle \in Files /\ handle \in Nat
  BY FileNumbers DEF TypeOK
<1>3. n \in exists
  BY DEF Rename
<1>4. handle <= n
  BY <1>1, <1>2, <1>3 DEF NewestOpen
<1>5. handle' = IF handle = n THEN n + 1 ELSE handle
  <2>1. handle # n + 1
    BY <1>1, <1>2, <1>4
  <2> QED BY <2>1 DEF Rename
<1>6. handle' \in exists' /\ handle' \in Files
  BY <1>1, <1>2, <1>5 DEF Rename
<1> QED BY <1>1, <1>2, <1>4, <1>5, <1>6

\* What each file holds after a rename.
LEMMA FilesMoved ==
  ASSUME TypeOK, n \in Files, Rename
  PROVE  /\ \A i \in Files : lines'[i] = IF i = n THEN {} ELSE IF i = n + 1 THEN lines[n] ELSE lines[i]
         /\ \A i \in Files : bytes'[i] = IF i = n THEN 0 ELSE IF i = n + 1 THEN bytes[n] ELSE bytes[i]
<1>1. n \in 0..(Backups - 1)
  BY DEF TypeOK
<1>2. lines \in [Files -> SUBSET Nat] /\ {} \in SUBSET Nat /\ lines' = Renamed(lines, {})
  BY DEF TypeOK, Rename
<1>3. bytes \in [Files -> Nat] /\ 0 \in Nat /\ bytes' = Renamed(bytes, 0)
  BY DEF TypeOK, Rename
<1>6. n + 1 \in Files /\ n # n + 1
  BY <1>1, Sizes, FileNumbers
<1>4. \A i \in Files : lines'[i] = IF i = n THEN {} ELSE IF i = n + 1 THEN lines[n] ELSE lines[i]
  BY <1>1, <1>2, <1>6 DEF Renamed
<1>5. \A i \in Files : bytes'[i] = IF i = n THEN 0 ELSE IF i = n + 1 THEN bytes[n] ELSE bytes[i]
  BY <1>1, <1>3, <1>6 DEF Renamed
<1> QED BY <1>4, <1>5

-----------------------------------------------------------------------------
LEMMA TypeInit == Init => TypeOK
BY Sizes, FileNumbers, ConstantsAssumption DEF Init, TypeOK

LEMMA TypeStep ==
  ASSUME TypeOK, NewestOpen, [Next]_vars
  PROVE  TypeOK'
<1>1. 0 \in Files /\ Files \subseteq Nat
  BY Sizes, FileNumbers
<1>2. ASSUME Start
      PROVE  TypeOK'
  BY <1>1, <1>2 DEF Start, Seed, TypeOK
<1>3. ASSUME Stop
      PROVE  TypeOK'
  BY <1>3 DEF Stop, TypeOK, disk
<1>4. ASSUME Log
      PROVE  TypeOK'
  BY <1>4, Sizes DEF Log, Oldest, TypeOK, disk
<1>5. ASSUME Shift
      PROVE  TypeOK'
  <2>1. /\ n' \in 0..(Backups - 1)
        /\ pc' \in {"open", "shift"} /\ pc = "shift"
        /\ UNCHANGED <<faults, counter, last>>
    BY <1>5, Sizes DEF Shift, Newest, TypeOK
  <2>2. CASE Rename
    <3>1. lines' \in [Files -> SUBSET Nat]
      BY <2>2, RenamedFiles DEF Rename, TypeOK
    <3>2. bytes' \in [Files -> Nat]
      BY <2>2, RenamedFiles DEF Rename, TypeOK
    <3>3. exists' \in SUBSET Files /\ handle' \in exists' /\ handle' \in Files
      BY <2>1, <2>2, HandleNamed DEF Rename, TypeOK
    <3> QED BY <2>1, <3>1, <3>2, <3>3 DEF TypeOK
  <2>3. CASE UNCHANGED <<disk, handle>>
    BY <2>1, <2>3 DEF TypeOK, disk
  <2> QED BY <1>5, <2>2, <2>3 DEF Shift
<1>6. ASSUME OpenFresh
      PROVE  TypeOK'
  BY <1>1, <1>6 DEF OpenFresh, TypeOK
<1>7. ASSUME OpenFails
      PROVE  TypeOK'
  BY <1>7 DEF OpenFails, TypeOK, NoteBytes
<1>8. ASSUME Write
      PROVE  TypeOK'
  BY <1>8, Sizes DEF Write, TypeOK
<1>9. ASSUME WriteFails
      PROVE  TypeOK'
  BY <1>9, Sizes DEF WriteFails, TypeOK
<1>10. CASE UNCHANGED vars
  BY <1>10 DEF vars, TypeOK, disk
<1> QED BY <1>2, <1>3, <1>4, <1>5, <1>6, <1>7, <1>8, <1>9, <1>10 DEF Next

-----------------------------------------------------------------------------
\* Files that are not there stay empty.
LEMMA BlankStep ==
  ASSUME TypeOK, NewestOpen, Blank, [Next]_vars
  PROVE  Blank'
<1>0. /\ exists \in SUBSET Files
      /\ lines \in [Files -> SUBSET Nat]
      /\ bytes \in [Files -> Nat]
      /\ pc # "down" => handle \in exists
  BY DEF TypeOK
<1>1. CASE UNCHANGED disk
  BY <1>1 DEF Blank, disk
<1>2. CASE Start
  BY <1>0, <1>2 DEF Start, Blank
<1>3. ASSUME Shift, Rename
      PROVE  Blank'
  <2>1. n \in Files /\ n + 1 \in Files
    BY <1>3, HandleNamed DEF Shift
  <2>2. \A i \in Files : lines'[i] = IF i = n THEN {} ELSE IF i = n + 1 THEN lines[n] ELSE lines[i]
    BY <1>3, <2>1, FilesMoved
  <2>3. \A i \in Files : bytes'[i] = IF i = n THEN 0 ELSE IF i = n + 1 THEN bytes[n] ELSE bytes[i]
    BY <1>3, <2>1, FilesMoved
  <2>4. exists' = (exists \ {n}) \cup {n + 1}
    BY <1>3 DEF Rename
  <2> SUFFICES ASSUME NEW i \in Files, i \notin exists'
               PROVE  lines'[i] = {} /\ bytes'[i] = 0
    BY DEF Blank
  <2>5. i = n \/ i \notin exists
    BY <2>4
  <2>6. i # n + 1
    BY <2>4
  <2> QED BY <2>2, <2>3, <2>5, <2>6 DEF Blank
<1>4. CASE OpenFresh
  BY <1>0, <1>4 DEF OpenFresh, Blank
<1>5. CASE OpenFails
  BY <1>0, <1>5 DEF OpenFails, Blank
<1>6. CASE Write
  BY <1>0, <1>6 DEF Write, Blank
<1>7. CASE WriteFails
  BY <1>0, <1>7 DEF WriteFails, Blank
<1> QED BY <1>1, <1>2, <1>3, <1>4, <1>5, <1>6, <1>7
        DEF Next, vars, Stop, Log, Shift, disk

\* The open file stays the newest.
LEMMA NewestStep ==
  ASSUME TypeOK, TypeOK', NewestOpen, [Next]_vars
  PROVE  NewestOpen'
<1>0. exists \in SUBSET Files /\ 0 \in Files /\ Files \subseteq Nat
  BY Sizes, FileNumbers DEF TypeOK
<1>1. CASE exists' = exists /\ handle' = handle /\ (pc' # "down" => pc # "down")
  BY <1>1 DEF NewestOpen
<1>2. CASE handle' = 0
  BY <1>0, <1>2 DEF NewestOpen
<1>3. ASSUME Shift, Rename
      PROVE  NewestOpen'
  <2>1. /\ n \in Nat /\ handle \in Nat /\ handle <= n
        /\ handle' = IF handle = n THEN n + 1 ELSE handle
        /\ exists' = (exists \ {n}) \cup {n + 1}
        /\ pc # "down"
    BY <1>3, HandleNamed DEF Shift, Rename
  <2> SUFFICES ASSUME NEW i \in Files, i < handle'
               PROVE  i \notin exists'
    BY DEF NewestOpen
  <2>2. i \in Nat
    BY <1>0
  <2>3. i # n + 1 /\ (i < handle \/ i = n)
    BY <2>1, <2>2
  <2>4. i < handle => i \notin exists
    BY <2>1 DEF NewestOpen
  <2> QED BY <2>1, <2>3, <2>4
<1>4. CASE pc' = "down"
  BY <1>4 DEF NewestOpen
<1> QED BY <1>1, <1>2, <1>3, <1>4
        DEF Next, vars, disk, Start, Stop, Log, Shift, OpenFresh, OpenFails, Write, WriteFails

\* A rename, a fresh file and a new line keep the order of the lines.
LEMMA OrderStep ==
  ASSUME TypeOK, NewestOpen, Blank, Numbered, InOrder, [Next]_vars
  PROVE  InOrder' /\ Numbered'
<1>0. /\ exists \in SUBSET Files /\ 0 \in Files /\ Files \subseteq Nat
      /\ lines \in [Files -> SUBSET Nat]
      /\ last \in Nat
      /\ pc # "down" => handle \in exists
  BY Sizes, FileNumbers DEF TypeOK
<1>1. CASE lines' = lines /\ last' \in {last, last + 1}
  BY <1>0, <1>1 DEF InOrder, Numbered
<1>2. ASSUME Shift, Rename
      PROVE  InOrder' /\ Numbered'
  <2>1. n \in Files /\ n + 1 \in Files /\ n \in Nat
    BY <1>2, HandleNamed DEF Shift
  <2>2. \A i \in Files : lines'[i] = IF i = n THEN {} ELSE IF i = n + 1 THEN lines[n] ELSE lines[i]
    BY <1>2, <2>1, FilesMoved
  <2>3. last' = last
    BY <1>2 DEF Shift
  <2>4. Numbered'
    BY <2>1, <2>2, <2>3 DEF Numbered
  <2>5. ASSUME NEW i \in Files, NEW j \in Files, i < j,
               NEW new \in lines'[i], NEW old \in lines'[j]
        PROVE  old < new
    <3>1. i # n /\ j # n
      BY <2>2, <2>5
    <3>2. PICK a \in Files : lines'[i] = lines[a] /\ a = IF i = n + 1 THEN n ELSE i
      BY <2>1, <2>2, <3>1
    <3>3. PICK b \in Files : lines'[j] = lines[b] /\ b = IF j = n + 1 THEN n ELSE j
      BY <2>1, <2>2, <3>1
    <3>4. a < b
      BY <1>0, <2>1, <2>5, <3>1, <3>2, <3>3
    <3>5. new \in lines[a] /\ old \in lines[b]
      BY <2>5, <3>2, <3>3
    <3> QED BY <3>4, <3>5 DEF InOrder
  <2> QED BY <2>4, <2>5 DEF InOrder
<1>3. CASE OpenFresh
  BY <1>0, <1>3 DEF OpenFresh, InOrder, Numbered
<1>4. ASSUME Write
      PROVE  InOrder' /\ Numbered'
  <2>1. /\ handle \in exists /\ handle \in Files
        /\ last' = last + 1
        /\ pc # "down"
    BY <1>0, <1>4 DEF Write
  <2>2. \A i \in Files : lines'[i] = IF i = handle THEN lines[i] \cup {last + 1} ELSE lines[i]
    BY <1>0, <1>4, <2>1 DEF Write
  <2>3. ASSUME NEW i \in Files, NEW l \in lines'[i]
        PROVE  l \in 1..last'
    <3>1. CASE l = last + 1
      BY <1>0, <2>1, <3>1
    <3>2. CASE l \in lines[i]
      BY <1>0, <2>1, <2>3, <3>2 DEF Numbered
    <3> QED BY <2>2, <2>3, <3>1, <3>2
  <2>4. ASSUME NEW i \in Files, NEW j \in Files, i < j,
               NEW new \in lines'[i], NEW old \in lines'[j]
        PROVE  old < new
    <3>1. CASE new \in lines[i] /\ old \in lines[j]
      BY <2>4, <3>1 DEF InOrder
    <3>2. CASE i = handle /\ new = last + 1 /\ old \in lines[j]
      BY <1>0, <3>2 DEF Numbered
    <3>3. j # handle \/ old \in lines[j]
      <4>1. CASE j = handle
        <5>1. lines[i] = {} /\ lines'[i] = lines[i]
          BY <1>0, <2>1, <2>2, <2>4, <4>1 DEF NewestOpen, Blank
        <5> QED BY <2>4, <5>1
      <4> QED BY <4>1
    <3> QED BY <2>2, <2>4, <3>1, <3>2, <3>3
  <2> QED BY <2>3, <2>4 DEF InOrder, Numbered
<1> QED BY <1>1, <1>2, <1>3, <1>4
        DEF Next, vars, disk, Start, Stop, Log, Shift, OpenFails, WriteFails

-----------------------------------------------------------------------------
\* The counter is the size of the open file, and no file outgrows the limit by
\* more than a line.
LEMMA CountedStep ==
  ASSUME TypeOK, TypeOK', NewestOpen, Counted, Bounded, [Next]_vars
  PROVE  Counted' /\ Bounded'
<1> DEFINE Room(size, b) == b < Limit + size
           Fits(b) == \E size \in LineSizes \cup {1} : Room(size, b)
<1>a. /\ 0 \in Files /\ Files \subseteq Nat /\ handle \in Files
      /\ bytes \in [Files -> Nat] /\ counter \in Nat
      /\ faults' = faults
  BY Sizes, FileNumbers
     DEF TypeOK, Next, vars, disk, Start, Stop, Log, Shift, OpenFresh, OpenFails, Write, WriteFails
<1> SUFFICES ASSUME faults \cap {"open", "write"} = {}
             PROVE  /\ pc' \in {"idle", "write"} => counter' = bytes'[handle']
                    /\ pc' = "write" => counter' < Limit
                    /\ \A i \in Files : Fits(bytes'[i])
  BY <1>a DEF Counted, Bounded
<1>b. /\ pc \in {"idle", "write"} => counter = bytes[handle]
      /\ pc = "write" => counter < Limit
      /\ \A i \in Files : Fits(bytes[i])
  BY DEF Counted, Bounded
<1>c. Fits(0)
  BY Sizes
<1>1. CASE Start
  BY <1>a, <1>b, <1>1 DEF Start, Seed
<1>2. CASE Stop
  BY <1>b, <1>2 DEF Stop, disk
<1>3. CASE Log
  BY <1>a, <1>b, <1>3, Sizes DEF Log, disk
<1>4. ASSUME Shift
      PROVE  /\ pc' \notin {"idle", "write"}
             /\ \A i \in Files : Fits(bytes'[i])
  <2>1. CASE Rename
    <3>1. n \in Files
      BY <1>4, <2>1, HandleNamed DEF Shift
    <3>2. \A i \in Files : bytes'[i] = IF i = n THEN 0 ELSE IF i = n + 1 THEN bytes[n] ELSE bytes[i]
      BY <2>1, <3>1, FilesMoved
    <3>3. \A i \in Files : Fits(bytes'[i])
      BY <1>b, <1>c, <3>1, <3>2
    <3> QED BY <1>4, <3>3 DEF Shift
  <2>2. CASE UNCHANGED disk
    BY <1>b, <1>4, <2>2 DEF Shift, disk
  <2> QED BY <1>4, <2>1, <2>2 DEF Shift
<1>5. CASE OpenFresh
  <2>1. \A i \in Files : bytes'[i] = IF i = 0 THEN 0 ELSE bytes[i]
    BY <1>a, <1>5 DEF OpenFresh
  <2>2. counter' = 0 /\ handle' = 0
    BY <1>5 DEF OpenFresh
  <2> QED BY <1>a, <1>b, <1>c, <2>1, <2>2, Sizes
<1>6. ASSUME Write
      PROVE  /\ pc' = "idle"
             /\ counter' = bytes'[handle']
             /\ \A i \in Files : Fits(bytes'[i])
  <2>1. PICK size \in LineSizes : /\ bytes' = [bytes EXCEPT ![handle] = @ + size]
                                  /\ counter' = counter + size
    BY <1>6 DEF Write
  <2>2. /\ pc = "write" /\ pc' = "idle" /\ handle' = handle
        /\ counter = bytes[handle] /\ counter < Limit
    BY <1>b, <1>6 DEF Write
  <2>3. \A i \in Files : bytes'[i] = IF i = handle THEN bytes[i] + size ELSE bytes[i]
    BY <1>a, <2>1
  <2>4. Room(size, bytes[handle] + size)
    BY <1>a, <2>2, Sizes
  <2>5. Fits(bytes[handle] + size)
    BY <2>4
  <2> QED BY <1>a, <1>b, <2>1, <2>2, <2>3, <2>5
<1>7. CASE UNCHANGED vars
  BY <1>b, <1>7 DEF vars, disk
<1>8. ~OpenFails /\ ~WriteFails
  BY DEF OpenFails, WriteFails
<1> QED BY <1>1, <1>2, <1>3, <1>4, <1>5, <1>6, <1>7, <1>8 DEF Next

-----------------------------------------------------------------------------
\* A rotation goes on because the file was full when it began.
LEMMA RotatingStep ==
  ASSUME TypeOK, Rotating, [Next]_vars
  PROVE  Rotating'
BY DEF Rotating, Next, vars, Start, Stop, Log, Shift, OpenFresh, OpenFails, Write, WriteFails

\* While renames and writes succeed a backup is never empty, and what a file is
\* moved onto is not there.
LEMMA FilledStep ==
  ASSUME TypeOK, NewestOpen, Rotating, Blank, Filled, Vacated, Lossless, [Next]_vars
  PROVE  Filled' /\ Vacated'
<1>0. /\ exists \in SUBSET Files /\ 0 \in Files /\ Files \subseteq Nat
      /\ lines \in [Files -> SUBSET Nat]
      /\ bytes \in [Files -> Nat]
      /\ n \in 0..(Backups - 1)
      /\ counter \in Nat /\ last \in Nat
      /\ pc # "down" => handle \in exists
  BY Sizes, FileNumbers DEF TypeOK
<1>1. ASSUME Start
      PROVE  Filled' /\ Vacated'
  BY <1>0, <1>1 DEF Start, Seed, Filled, Vacated
<1>2. ASSUME Stop
      PROVE  Filled' /\ Vacated'
  BY <1>2 DEF Stop, disk, Filled, Vacated
<1>3. ASSUME Log
      PROVE  Filled' /\ Vacated'
  BY <1>0, <1>3, Sizes DEF Log, Oldest, disk, Filled, Vacated
<1>4. ASSUME Shift, Rename
      PROVE  Filled' /\ Vacated'
  <2>1. /\ n \in Files /\ n + 1 \in Files /\ n \in Nat
        /\ handle \in exists /\ handle \in Files /\ handle \in Nat /\ handle <= n
        /\ handle' = IF handle = n THEN n + 1 ELSE handle
    BY <1>0, <1>4, HandleNamed DEF Shift
  <2>2. \A i \in Files : lines'[i] = IF i = n THEN {} ELSE IF i = n + 1 THEN lines[n] ELSE lines[i]
    BY <1>4, <2>1, FilesMoved
  <2>3. \A i \in Files : bytes'[i] = IF i = n THEN 0 ELSE IF i = n + 1 THEN bytes[n] ELSE bytes[i]
    BY <1>4, <2>1, FilesMoved
  <2>4. /\ n \in exists /\ exists' = (exists \ {n}) \cup {n + 1}
        /\ pc' = IF n = 0 THEN "open" ELSE "shift"
        /\ n' = IF n = 0 THEN n ELSE n - 1
        /\ pc = "shift" /\ counter' = counter
    BY <1>4 DEF Shift, Rename, Newest
  <2>5. lines[handle] # {}
    BY <2>4, Sizes, <1>0 DEF Rotating, Filled
  <2>6. n = 0 => handle = n
    BY <2>1
  <2>7. lines[n] # {}
    BY <1>0, <2>1, <2>4, <2>5, <2>6 DEF Filled
  <2>8. lines'[handle'] # {}
    BY <2>1, <2>2, <2>5
  <2>9. \A i \in Files : bytes'[i] > 0 => lines'[i] # {}
    BY <2>1, <2>2, <2>3, <2>7 DEF Filled
  <2>10. \A i \in Files : i > 0 /\ i \in exists' => lines'[i] # {}
    BY <2>1, <2>2, <2>4, <2>7 DEF Filled
  <2>11. Vacated'
    BY <1>0, <2>1, <2>4 DEF Vacated
  <2> QED BY <2>8, <2>9, <2>10, <2>11 DEF Filled
<1>5. ASSUME Shift, n \notin exists, UNCHANGED <<disk, handle>>
      PROVE  Filled' /\ Vacated'
  BY <1>0, <1>5 DEF Shift, Newest, disk, Filled, Vacated
<1>6. ASSUME OpenFresh
      PROVE  Filled' /\ Vacated'
  BY <1>0, <1>6 DEF OpenFresh, Filled, Vacated
<1>7. ASSUME OpenFails
      PROVE  Filled' /\ Vacated'
  <2>1. lines[handle] # {}
    BY <1>0, <1>7, Sizes DEF OpenFails, Rotating, Filled
  <2> QED BY <1>0, <1>7, <2>1 DEF OpenFails, Filled, Vacated
<1>8. ASSUME Write
      PROVE  Filled' /\ Vacated'
  BY <1>0, <1>8 DEF Write, Filled, Vacated
<1>9. CASE UNCHANGED vars
  BY <1>9 DEF vars, disk, Filled, Vacated
<1>10. ~WriteFails /\ "rename" \notin faults
  BY DEF WriteFails, Lossless
<1> QED BY <1>1, <1>2, <1>3, <1>4, <1>5, <1>6, <1>7, <1>8, <1>9, <1>10 DEF Next, Shift

-----------------------------------------------------------------------------
\* The inductive invariant.
LEMMA Invariance == Spec => []IInv
<1>1. Init => IInv
  BY TypeInit, Sizes, FileNumbers
     DEF Init, IInv, InOrder, Blank, Numbered, NewestOpen, Counted, Bounded, Rotating, Filled, Vacated
<1>2. IInv /\ [Next]_vars => IInv'
  <2> SUFFICES ASSUME IInv, [Next]_vars
               PROVE  IInv'
    OBVIOUS
  <2>1. TypeOK'
    BY TypeStep DEF IInv
  <2>2. Blank' /\ NewestOpen' /\ InOrder' /\ Numbered'
    BY <2>1, BlankStep, NewestStep, OrderStep DEF IInv
  <2>3. Counted' /\ Bounded'
    BY <2>1, CountedStep DEF IInv
  <2>4. Rotating'
    BY RotatingStep DEF IInv
  <2>5. Lossless' = Lossless
    BY DEF Lossless, Next, vars, disk, Start, Stop, Log, Shift, OpenFresh, OpenFails, Write, WriteFails
  <2>6. Lossless => Filled' /\ Vacated'
    BY FilledStep DEF IInv
  <2> QED BY <2>1, <2>2, <2>3, <2>4, <2>5, <2>6 DEF IInv
<1> QED BY <1>1, <1>2, PTL DEF Spec

\* The disk and the logger keep their types, and the open file a name: a
\* rotation never replaces the file that is being written.
THEOREM TypeCorrect == Spec => []TypeOK
<1>1. IInv => TypeOK
  BY DEF IInv
<1> QED BY <1>1, Invariance, PTL

\* From the oldest backup to the log the lines are in the order they were
\* logged, whatever fails and wherever the process is stopped.
THEOREM LinesInOrder == Spec => []InOrder
<1>1. IInv => InOrder
  BY DEF IInv
<1> QED BY <1>1, Invariance, PTL

\* While files can be opened and written, none outgrows MAX_LOG_BYTES by more
\* than the line that reached it.
THEOREM FilesAreBounded == Spec => []Bounded
<1>1. IInv => Bounded
  BY DEF IInv
<1> QED BY <1>1, Invariance, PTL

-----------------------------------------------------------------------------
\* A line is kept that is in some file.
LEMMA KeptLines == \A l : l \in Kept <=> \E i \in Files : l \in lines[i]
BY DEF Kept

\* A rename keeps the lines of every file but the one it replaces, and none was
\* there unless it is the oldest backup.
LEMMA RenameKeeps ==
  ASSUME IInv, Lossless, Shift, Rename
  PROVE  /\ \A l : l \in Kept' <=> \E i \in Files : i # n + 1 /\ l \in lines[i]
         /\ n < Backups - 1 => Kept' = Kept
<1>1. /\ n \in Files /\ n + 1 \in Files /\ pc = "shift"
  BY HandleNamed DEF IInv, Shift, Rename
<1>2. \A i \in Files : lines'[i] = IF i = n THEN {} ELSE IF i = n + 1 THEN lines[n] ELSE lines[i]
  BY <1>1, FilesMoved DEF IInv
<1>3. \A l : l \in Kept' <=> \E i \in Files : i # n + 1 /\ l \in lines[i]
  <2> SUFFICES ASSUME NEW l
               PROVE  l \in Kept' <=> \E i \in Files : i # n + 1 /\ l \in lines[i]
    OBVIOUS
  <2>1. ASSUME NEW i \in Files, l \in lines'[i]
        PROVE  \E j \in Files : j # n + 1 /\ l \in lines[j]
    <3>1. CASE i = n + 1
      BY <1>1, <1>2, <2>1, <3>1
    <3>2. CASE i # n + 1
      BY <1>2, <2>1, <3>2
    <3> QED BY <3>1, <3>2
  <2>2. ASSUME NEW i \in Files, i # n + 1, l \in lines[i]
        PROVE  \E j \in Files : l \in lines'[j]
    <3>1. CASE i = n
      BY <1>1, <1>2, <2>2, <3>1
    <3>2. CASE i # n
      BY <1>2, <2>2, <3>2
    <3> QED BY <3>1, <3>2
  <2>3. l \in Kept' <=> \E j \in Files : l \in lines'[j]
    BY DEF Kept
  <2> QED BY <2>1, <2>2, <2>3
<1>4. ASSUME n < Backups - 1
      PROVE  Kept' = Kept
  <2>1. lines[n + 1] = {}
    BY <1>1, <1>4 DEF IInv, Blank, Vacated
  <2>2. \A l : l \in Kept' <=> l \in Kept
    BY <1>3, <2>1, KeptLines
  <2> QED BY <2>2
<1> QED BY <1>3, <1>4

\* When renames and writes succeed a rename gives up lines only when it replaces
\* the oldest backup, and those are the oldest.
LEMMA RenameForgets ==
  ASSUME IInv, Lossless, Shift, Rename
  PROVE  Kept' = Kept \/ Reader!Forget
<1>1. /\ n \in Files /\ n + 1 \in Files /\ n \in Nat
      /\ handle \in Nat /\ handle <= n /\ handle \in exists
      /\ pc = "shift" /\ n \in exists /\ n \in 0..(Backups - 1)
  BY HandleNamed DEF IInv, TypeOK, Shift, Rename
<1>3. \A l : l \in Kept' <=> \E i \in Files : i # n + 1 /\ l \in lines[i]
  BY RenameKeeps
<1>4. CASE n < Backups - 1
  BY <1>4, RenameKeeps
<1>5. CASE n = Backups - 1
  <2>1. Kept' \subseteq Kept
    BY <1>3, KeptLines
  <2>2. lines[n] # {}
    <3>1. n > 0 => lines[n] # {}
      BY <1>1 DEF IInv, Filled
    <3>2. n = 0 => handle = n
      BY <1>1
    <3>3. lines[handle] # {}
      BY <1>1, Sizes DEF IInv, Rotating, Filled, TypeOK
    <3> QED BY <1>1, <3>1, <3>2, <3>3
  <2>3. Kept' # {}
    <3>1. PICK l \in lines[n] : TRUE
      BY <2>2
    <3>2. l \in Kept'
      BY <1>1, <1>3, <3>1
    <3> QED BY <3>2
  <2>4. ASSUME NEW old \in Kept \ Kept', NEW new \in Kept'
        PROVE  old < new
    <3>1. old \in lines[n + 1]
      BY <1>3, <2>4, KeptLines
    <3>2. PICK i \in Files : i # n + 1 /\ new \in lines[i]
      BY <1>3, <2>4
    <3>3. i < n + 1
      BY <1>1, <1>5, <3>2, Sizes, FileNumbers
    <3> QED BY <1>1, <3>1, <3>2, <3>3 DEF IInv, InOrder
  <2>5. last' = last /\ faults' = faults
    BY DEF Shift
  <2> QED BY <2>1, <2>3, <2>4, <2>5 DEF Reader!Forget
<1> QED BY <1>1, <1>4, <1>5, Sizes

\* Where renames or writes fail lines may go missing, but what is kept was logged.
LEMMA FaultsLose ==
  ASSUME IInv, ~Lossless, faults' = faults, Kept' \subseteq Kept, last' \in {last, last + 1}
  PROVE  Reader!Lose
BY DEF Reader!Lose, Lossless

\* The files, the rotation and its restarts implement one log that gives up its
\* oldest lines, and loses others only where renames or writes fail.
THEOREM Implementation == Spec => ImplementsKeptLog
<1>1. Init => Reader!Init
  <2> SUFFICES ASSUME Init
               PROVE  Reader!Init
    OBVIOUS
  <2>1. \A i \in Files : lines[i] = {}
    BY DEF Init
  <2>2. Kept = {}
    BY <2>1, KeptLines
  <2> QED BY <2>2 DEF Init, Reader!Init
<1>2. IInv /\ [Next]_vars => [Reader!Next]_(Reader!vars)
  <2> SUFFICES ASSUME IInv, [Next]_vars
               PROVE  [Reader!Next]_(Reader!vars)
    OBVIOUS
  <2> USE DEF Reader!Next, Reader!vars
  <2>a. /\ faults' = faults
        /\ 0 \in Files /\ Files \subseteq Nat /\ lines \in [Files -> SUBSET Nat] /\ handle \in Files
    BY Sizes, FileNumbers
       DEF IInv, TypeOK, Next, vars, disk, Start, Stop, Log, Shift, OpenFresh, OpenFails, Write, WriteFails
  <2>1. CASE lines' = lines /\ last' = last
    BY <2>a, <2>1 DEF Kept
  <2>2. ASSUME Shift, Rename
        PROVE  [Reader!Next]_(Reader!vars)
    <3>0. last' = last
      BY <2>2 DEF Shift
    <3>1. CASE Lossless
      BY <2>a, <2>2, <3>0, <3>1, RenameForgets
    <3>2. CASE ~Lossless
      <4>1. n \in Files
        BY <2>2, HandleNamed DEF IInv, Shift
      <4>2. \A i \in Files : lines'[i] = IF i = n THEN {} ELSE IF i = n + 1 THEN lines[n] ELSE lines[i]
        BY <2>2, <4>1, FilesMoved DEF IInv
      <4>3. \A i \in Files : \A l \in lines'[i] : \E j \in Files : l \in lines[j]
        BY <4>1, <4>2
      <4>4. Kept' \subseteq Kept
        BY <4>3 DEF Kept
      <4> QED BY <2>a, <3>0, <3>2, <4>4, FaultsLose
    <3> QED BY <3>1, <3>2
  <2>3. ASSUME OpenFresh
        PROVE  [Reader!Next]_(Reader!vars)
    <3>0. /\ last' = last
          /\ \A i \in Files : lines'[i] = IF i = 0 THEN {} ELSE lines[i]
      BY <2>a, <2>3 DEF OpenFresh
    <3>1. CASE Lossless
      <4>1. lines[0] = {}
        BY <2>a, <2>3, <3>1 DEF OpenFresh, IInv, Vacated, Blank
      <4>2. \A i \in Files : lines'[i] = lines[i]
        BY <3>0, <4>1
      <4>3. Kept' = Kept
        BY <4>2 DEF Kept
      <4> QED BY <2>a, <3>0, <4>3
    <3>2. CASE ~Lossless
      <4>1. \A i \in Files : \A l \in lines'[i] : l \in lines[i]
        BY <3>0
      <4>2. Kept' \subseteq Kept
        BY <4>1 DEF Kept
      <4> QED BY <2>a, <3>0, <3>2, <4>2, FaultsLose
    <3> QED BY <3>1, <3>2
  <2>4. ASSUME Write
        PROVE  Reader!Add
    <3>1. /\ last' = last + 1
          /\ \A i \in Files : lines'[i] = IF i = handle THEN lines[i] \cup {last + 1} ELSE lines[i]
      BY <2>a, <2>4 DEF Write
    <3>2. \A l : l \in Kept' <=> l \in Kept \/ l = last + 1
      BY <2>a, <3>1 DEF Kept
    <3>3. Kept' = Kept \cup {last + 1}
      BY <3>2
    <3> QED BY <2>a, <3>1, <3>3 DEF Reader!Add
  <2>5. ASSUME WriteFails
        PROVE  [Reader!Next]_(Reader!vars)
    <3>1. /\ ~Lossless
          /\ lines' = lines /\ last' = last + 1
      BY <2>5 DEF WriteFails, Lossless
    <3>2. Kept' = Kept
      BY <3>1 DEF Kept
    <3> QED BY <2>a, <3>1, <3>2, FaultsLose
  <2>6. \/ lines' = lines /\ last' = last
        \/ Shift /\ Rename
        \/ OpenFresh
        \/ Write
        \/ WriteFails
    BY DEF Next, vars, disk, Start, Stop, Log, Shift, OpenFails
  <2> QED BY <2>1, <2>2, <2>3, <2>4, <2>5, <2>6
<1> QED BY <1>1, <1>2, Invariance, PTL DEF Spec, ImplementsKeptLog, Reader!Spec

-----------------------------------------------------------------------------
(***************************************************************************)
(* How much is kept when nothing but stops goes wrong.                     *)
(***************************************************************************)
Calm == faults \subseteq {"stop"}

\* Lines have been given up.
Lost == Kept # 1..last

\* What rotate() has moved, or found missing, last.
Gap == IF pc = "shift" THEN n + 1 ELSE IF pc = "open" THEN 0 ELSE Unlinked

\* The logger writes to file 0, and rotates it when it is full; backups are full.
InPlace ==
  /\ pc \in {"idle", "shift", "write"} => handle = 0
  /\ pc = "shift" => bytes[0] >= Limit
FullBackups == \A i \in exists : i > 0 => bytes[i] >= Limit

\* Lines are lost by replacing the oldest backup, so there is one; and while it
\* was replaced the log itself was full.
LossSpares ==
  Lost => /\ Backups \in exists
          /\ Backups > 1 => \E i \in exists : i < Backups /\ bytes[i] >= Limit

\* Without stops a file is missing only where the rotation is.
NoGap ==
  faults = {} => \A i \in exists : \A j \in Files : j < i => j \in exists \/ j = Gap

KeepInv == Calm => InPlace /\ FullBackups /\ LossSpares /\ NoGap

\* Nothing of this is disturbed by a step that leaves files and places alone.
LEMMA Undisturbed ==
  ASSUME KeepInv, UNCHANGED vars
  PROVE  KeepInv'
BY DEF KeepInv, Calm, InPlace, FullBackups, LossSpares, NoGap, Gap, Lost, Kept, vars, disk

\* While renames and writes succeed only the rename of the last backup but one
\* gives up lines.
LEMMA LossIsReplacement ==
  ASSUME IInv, Lossless, [Next]_vars, Lost', ~(Shift /\ Rename /\ n = Backups - 1)
  PROVE  Lost
<1>1. /\ exists \in SUBSET Files /\ 0 \in Files /\ Files \subseteq Nat
      /\ lines \in [Files -> SUBSET Nat] /\ last \in Nat
      /\ handle \in Files /\ n \in 0..(Backups - 1)
  BY Sizes, FileNumbers DEF IInv, TypeOK
<1>2. CASE lines' = lines /\ last' = last
  BY <1>2 DEF Lost, Kept
<1>3. ASSUME Shift, Rename
      PROVE  Lost
  <2>1. Kept' = Kept
    BY <1>1, <1>3, RenameKeeps, Sizes
  <2> QED BY <1>3, <2>1 DEF Shift, Lost
<1>4. ASSUME OpenFresh
      PROVE  Lost
  <2>1. lines[0] = {}
    BY <1>1, <1>4 DEF OpenFresh, IInv, Vacated, Blank
  <2>2. lines' = lines /\ last' = last
    BY <1>1, <1>4, <2>1 DEF OpenFresh
  <2> QED BY <2>2 DEF Lost, Kept
<1>5. ASSUME Write, ~Lost
      PROVE  FALSE
  <2>1. /\ last' = last + 1
        /\ \A i \in Files : lines'[i] = IF i = handle THEN lines[i] \cup {last + 1} ELSE lines[i]
    BY <1>1, <1>5 DEF Write
  <2>2. \A l : l \in Kept' <=> l \in Kept \/ l = last + 1
    <3>1. \A l : (\E i \in Files : l \in lines'[i]) <=> (\E i \in Files : l \in lines[i]) \/ l = last + 1
      BY <1>1, <2>1
    <3> QED BY <3>1 DEF Kept
  <2>3. \A l : l \in 1..(last + 1) <=> l \in 1..last \/ l = last + 1
    BY <1>1
  <2>4. \A l : l \in Kept' <=> l \in 1..(last + 1)
    BY <1>5, <2>2, <2>3 DEF Lost
  <2>5. Kept' = 1..(last + 1)
    BY <2>4
  <2> QED BY <1>5, <2>1, <2>5 DEF Lost
<1>6. ~WriteFails
  BY DEF WriteFails, Lossless
<1>7. \/ lines' = lines /\ last' = last
      \/ Shift /\ Rename
      \/ OpenFresh
      \/ Write
  BY <1>6 DEF Next, vars, disk, Start, Stop, Log, Shift, OpenFails
<1> QED BY <1>2, <1>3, <1>4, <1>5, <1>7

-----------------------------------------------------------------------------
\* A rename leaves the place of the renamed file empty, and replaces the oldest
\* backup while the log itself is full.
LEMMA RenameSpares ==
  ASSUME IInv, Calm, KeepInv, Shift, Rename
  PROVE  KeepInv'
<1>1. /\ n \in Files /\ n + 1 \in Files /\ n \in Nat /\ n <= Backups - 1
      /\ exists \in SUBSET Files /\ 0 \in Files /\ Files \subseteq Nat
      /\ bytes \in [Files -> Nat]
      /\ handle \in exists
  BY HandleNamed, Sizes, FileNumbers DEF IInv, TypeOK, Shift, Rename
<1>2. \A i \in Files : bytes'[i] = IF i = n THEN 0 ELSE IF i = n + 1 THEN bytes[n] ELSE bytes[i]
  BY <1>1, FilesMoved DEF IInv
<1>3. /\ pc = "shift" /\ pc' = (IF n = 0 THEN "open" ELSE "shift")
      /\ n' = (IF n = 0 THEN n ELSE n - 1)
      /\ n \in exists /\ exists' = (exists \ {n}) \cup {n + 1}
      /\ faults' = faults
  BY DEF Shift, Rename, Newest
<1>4. handle = 0 /\ bytes[0] >= Limit
  BY <1>3 DEF KeepInv, InPlace
<1>5. InPlace'
  <2>1. n > 0 => handle' = 0 /\ bytes'[0] = bytes[0]
    BY <1>1, <1>2, <1>4 DEF Rename
  <2> QED BY <1>1, <1>3, <1>4, <2>1 DEF InPlace
<1>6. bytes[n] >= Limit
  BY <1>1, <1>3, <1>4 DEF KeepInv, FullBackups
<1>7. FullBackups'
  BY <1>1, <1>2, <1>3, <1>6 DEF KeepInv, FullBackups
<1>8. LossSpares'
  <2> SUFFICES ASSUME Lost'
               PROVE  /\ Backups \in exists'
                      /\ Backups > 1 => \E i \in exists' : i < Backups /\ bytes'[i] >= Limit
    BY DEF LossSpares
  <2>1. Backups \in exists'
    <3>1. CASE n = Backups - 1
      BY <1>1, <1>3, <3>1, Sizes
    <3>2. CASE n # Backups - 1
      <4>1. Lost
        BY <3>2, LossIsReplacement DEF Next, Calm, Lossless
      <4> QED BY <1>1, <1>3, <3>2, <4>1, Sizes DEF KeepInv, LossSpares
    <3> QED BY <3>1, <3>2
  <2> DEFINE w == IF n = 0 THEN 1 ELSE 0
  <2>2. w \in exists' /\ bytes'[w] >= Limit
    <3>1. CASE n = 0
      <4>1. w = n + 1 /\ bytes'[n + 1] = bytes[n]
        BY <1>1, <1>2, <3>1
      <4> QED BY <1>3, <1>6, <4>1
    <3>2. CASE n # 0
      <4>1. w = 0 /\ 0 # n /\ 0 # n + 1 /\ bytes'[0] = bytes[0]
        BY <1>1, <1>2, <3>2
      <4>2. 0 \in exists'
        BY <1>1, <1>3, <1>4, <4>1
      <4> QED BY <1>4, <4>1, <4>2
    <3> QED BY <3>1, <3>2
  <2>3. Backups > 1 => w < Backups
    BY Sizes
  <2> QED BY <2>1, <2>2, <2>3
<1>9. NoGap'
  <2>1. Gap' = n
    BY <1>1, <1>3 DEF Gap
  <2> SUFFICES ASSUME faults = {}, NEW i \in exists', NEW j \in Files, j < i, j # n
               PROVE  j \in exists'
    BY <1>3, <2>1 DEF NoGap
  <2>2. Gap = n + 1
    BY <1>3 DEF Gap
  <2>3. CASE i \in exists
    BY <1>1, <1>3, <2>2, <2>3 DEF KeepInv, NoGap
  <2>4. CASE i = n + 1
    <3>1. j < n /\ j # n + 1
      BY <1>1, <2>4
    <3> QED BY <1>1, <1>3, <2>2, <3>1 DEF KeepInv, NoGap
  <2> QED BY <1>3, <2>3, <2>4
<1> QED BY <1>5, <1>7, <1>8, <1>9 DEF KeepInv

\* What holds of the files between rotations and during them, step by step.
LEMMA KeepStep ==
  ASSUME IInv, KeepInv, [Next]_vars
  PROVE  KeepInv'
<1>1. /\ exists \in SUBSET Files /\ 0 \in Files /\ Files \subseteq Nat
      /\ bytes \in [Files -> Nat] /\ counter \in Nat
      /\ n \in Nat /\ n <= Backups - 1 /\ n \in Files
      /\ handle \in Files /\ (pc # "down" => handle \in exists)
      /\ Backups \in Files /\ Backups > 0 /\ Unlinked \notin Files
  BY Sizes, FileNumbers DEF IInv, TypeOK, Unlinked
<1>2. faults' = faults
  BY DEF Next, vars, disk, Start, Stop, Log, Shift, OpenFresh, OpenFails, Write, WriteFails
<1> SUFFICES ASSUME Calm
             PROVE  InPlace' /\ FullBackups' /\ LossSpares' /\ NoGap'
  BY <1>2 DEF KeepInv, Calm
<1> USE DEF KeepInv
<1>3. Lossless /\ "open" \notin faults
  BY DEF Calm, Lossless
<1>4. ASSUME ~(Shift /\ Rename), Lost'
      PROVE  Lost
  BY <1>3, <1>4, LossIsReplacement
<1>5. ASSUME Start
      PROVE  InPlace' /\ FullBackups' /\ LossSpares' /\ NoGap'
  <2>1. ~(Shift /\ Rename)
    BY <1>5 DEF Start, Shift
  <2>2. /\ exists' = exists \cup {0} /\ bytes' = bytes
        /\ pc = "down" /\ pc' = "idle" /\ handle' = 0
    BY <1>5 DEF Start
  <2>3. Gap = Unlinked /\ Gap' = Unlinked
    BY <2>2 DEF Gap, Unlinked
  <2>4. InPlace' /\ FullBackups'
    BY <1>1, <2>2 DEF InPlace, FullBackups
  <2>5. LossSpares'
    BY <1>1, <1>4, <2>1, <2>2 DEF LossSpares
  <2>6. NoGap'
    BY <1>1, <1>2, <2>2, <2>3 DEF NoGap
  <2> QED BY <2>4, <2>5, <2>6
<1>6. ASSUME Stop
      PROVE  InPlace' /\ FullBackups' /\ LossSpares' /\ NoGap'
  <2>1. /\ ~(Shift /\ Rename)
        /\ UNCHANGED <<exists, bytes>> /\ pc' = "down" /\ faults # {}
    BY <1>6 DEF Stop, Shift, Rename, disk, Kept, Lost
  <2>2. LossSpares'
    BY <1>4, <2>1 DEF LossSpares
  <2> QED BY <1>2, <2>1, <2>2 DEF InPlace, FullBackups, NoGap
<1>7. ASSUME Log
      PROVE  InPlace' /\ FullBackups' /\ LossSpares' /\ NoGap'
  <2>1. /\ ~(Shift /\ Rename)
        /\ UNCHANGED <<exists, bytes, handle>> /\ pc = "idle"
        /\ \/ pc' = "shift" /\ n' + 1 = Backups /\ counter >= Limit
           \/ pc' = "write"
    BY <1>1, <1>7 DEF Log, Shift, disk, Oldest
  <2>2. counter = bytes[handle]
    BY <1>3, <2>1 DEF IInv, Counted, Calm
  <2>3. InPlace' /\ FullBackups'
    BY <2>1, <2>2 DEF InPlace, FullBackups
  <2>4. LossSpares'
    BY <1>4, <2>1 DEF LossSpares
  <2>5. Gap = Unlinked
    BY <2>1 DEF Gap
  <2>6. NoGap'
    BY <1>1, <1>2, <2>1, <2>5 DEF NoGap
  <2> QED BY <2>3, <2>4, <2>6
<1>8. ASSUME Shift, n \notin exists, UNCHANGED <<disk, handle>>
      PROVE  InPlace' /\ FullBackups' /\ LossSpares' /\ NoGap'
  <2>1. /\ pc = "shift" /\ pc' = (IF n = 0 THEN "open" ELSE "shift")
        /\ n' = (IF n = 0 THEN n ELSE n - 1)
        /\ UNCHANGED <<exists, bytes, handle>> /\ ~Rename
    BY <1>8 DEF Shift, disk, Newest, Rename
  <2>2. InPlace' /\ FullBackups'
    BY <1>1, <2>1 DEF InPlace, FullBackups
  <2>3. LossSpares'
    BY <1>4, <2>1 DEF LossSpares
  <2>4. NoGap'
    <3>1. Gap' = n /\ Gap = n + 1
      BY <1>1, <2>1 DEF Gap
    <3> SUFFICES ASSUME faults = {}, NEW i \in exists, NEW j \in Files, j < i, j # n
                 PROVE  j \in exists
      BY <1>2, <2>1, <3>1 DEF NoGap
    <3>2. j \in exists \/ j = n + 1
      BY <3>1 DEF NoGap
    <3>3. ASSUME j = n + 1
          PROVE  FALSE
      <4>1. n < i /\ n # n + 1
        BY <1>1, <3>3
      <4> QED BY <1>1, <1>8, <3>1, <4>1 DEF NoGap
    <3> QED BY <3>2, <3>3
  <2> QED BY <2>2, <2>3, <2>4
<1>9. ASSUME OpenFresh
      PROVE  InPlace' /\ FullBackups' /\ LossSpares' /\ NoGap'
  <2>1. /\ pc = "open" /\ pc' = "write" /\ ~(Shift /\ Rename)
        /\ exists' = exists \cup {0} /\ handle' = 0
        /\ \A i \in Files : i # 0 => bytes'[i] = bytes[i]
    BY <1>1, <1>9 DEF OpenFresh, Shift
  <2>2. 0 \notin exists
    BY <1>3, <2>1 DEF IInv, Vacated
  <2>3. InPlace' /\ FullBackups'
    BY <1>1, <2>1 DEF InPlace, FullBackups
  <2>4. LossSpares'
    BY <1>1, <1>4, <2>1, <2>2 DEF LossSpares
  <2>5. Gap = 0
    BY <2>1 DEF Gap
  <2>6. NoGap'
    BY <1>1, <1>2, <2>1, <2>5 DEF NoGap
  <2> QED BY <2>3, <2>4, <2>6
<1>10. ASSUME Write
       PROVE  InPlace' /\ FullBackups' /\ LossSpares' /\ NoGap'
  <2>1. /\ pc = "write" /\ pc' = "idle" /\ ~(Shift /\ Rename)
        /\ UNCHANGED <<exists, handle>>
        /\ \A i \in Files : bytes'[i] >= bytes[i]
    <3>1. PICK size \in LineSizes : bytes' = [bytes EXCEPT ![handle] = @ + size]
      BY <1>10 DEF Write
    <3>2. size \in Nat
      BY Sizes
    <3>3. \A i \in Files : bytes'[i] = IF i = handle THEN bytes[i] + size ELSE bytes[i]
      BY <1>1, <3>1
    <3> QED BY <1>1, <1>10, <3>2, <3>3 DEF Write, Shift
  <2>a. bytes' \in [Files -> Nat]
    BY TypeStep DEF IInv, TypeOK
  <2>b. Limit \in Nat
    BY Sizes
  <2>2. InPlace' /\ FullBackups'
    BY <1>1, <2>1, <2>a, <2>b DEF InPlace, FullBackups
  <2>3. LossSpares'
    BY <1>1, <1>4, <2>1, <2>a, <2>b DEF LossSpares
  <2>4. NoGap'
    BY <1>2, <2>1 DEF NoGap, Gap
  <2> QED BY <2>2, <2>3, <2>4
<1>11. CASE UNCHANGED vars
  BY <1>11, Undisturbed, <1>2 DEF Calm
<1>12. CASE Shift /\ Rename
  BY <1>2, <1>12, RenameSpares DEF Calm
<1>13. ~OpenFails /\ ~WriteFails /\ "rename" \notin faults
  BY DEF OpenFails, WriteFails, Calm
<1> QED BY <1>5, <1>6, <1>7, <1>8, <1>9, <1>10, <1>11, <1>12, <1>13 DEF Next, Shift

-----------------------------------------------------------------------------
\* All files but one are as many as there are backups.
LEMMA AllButOne ==
  ASSUME NEW f \in Files
  PROVE  Cardinality(Files \ {f}) = Backups
<1>1. IsFiniteSet(Files) /\ Cardinality(Files) = Backups + 1
  BY Sizes, FS_Interval DEF Files
<1>2. Cardinality(Files \ {f}) = Cardinality(Files) - 1
  BY <1>1, FS_RemoveElement
<1> QED BY <1>1, <1>2, Sizes

\* A set of full files is at most as large as the set of all of them.
LEMMA AtLeast ==
  ASSUME TypeOK, NEW S \in SUBSET FullFiles
  PROVE  Cardinality(S) <= Cardinality(FullFiles) /\ Cardinality(FullFiles) \in Nat
<1>1. IsFiniteSet(Files)
  BY Sizes, FS_Interval DEF Files
<1>2. IsFiniteSet(FullFiles)
  BY <1>1, FS_Subset DEF FullFiles
<1> QED BY <1>2, FS_Subset, FS_CardinalityType

\* Without stops every file is full but one: the log, or the one that has been
\* moved last.
LEMMA WithoutStops ==
  ASSUME IInv, KeepInv, faults = {}, Lost
  PROVE  Cardinality(FullFiles) >= Backups
<1>1. /\ exists \in SUBSET Files /\ 0 \in Files /\ Files \subseteq Nat
      /\ n \in Nat /\ n <= Backups - 1 /\ n + 1 \in Files
      /\ pc # "down" => handle \in exists
      /\ Backups \in Files /\ Backups > 0 /\ Unlinked \notin Files
  BY Sizes, FileNumbers DEF IInv, TypeOK, Unlinked
<1>2. InPlace /\ FullBackups /\ LossSpares /\ NoGap
  BY DEF KeepInv, Calm
<1>3. Backups \in exists
  BY <1>2 DEF LossSpares
<1>4. \A j \in Files : j \in exists \/ j = Gap
  BY <1>1, <1>2, <1>3, FileNumbers DEF NoGap
<1> DEFINE f == IF pc = "shift" THEN n + 1 ELSE 0
<1>5. f \in Files
  BY <1>1
<1>6. Files \ {f} \subseteq FullFiles
  <2> SUFFICES ASSUME NEW i \in Files, i # f
               PROVE  bytes[i] >= Limit
    BY DEF FullFiles
  <2>1. i # Gap
    BY <1>1 DEF Gap
  <2>2. i \in exists
    BY <1>4, <2>1
  <2>3. CASE i = 0
    <3>1. pc = "shift"
      BY <2>3
    <3> QED BY <1>2, <2>3, <3>1 DEF InPlace
  <2>4. CASE i # 0
    BY <1>1, <1>2, <2>2, <2>4 DEF FullBackups
  <2> QED BY <2>3, <2>4
<1>7. Cardinality(Files \ {f}) = Backups
  BY <1>5, AllButOne
<1>8. TypeOK
  BY DEF IInv
<1> HIDE DEF f
<1> QED BY <1>6, <1>7, <1>8, AtLeast

\* With stops the oldest backup is full, and one file besides.
LEMMA WithStops ==
  ASSUME IInv, KeepInv, Calm, Lost
  PROVE  Cardinality(FullFiles) >= IF Backups = 1 THEN 1 ELSE 2
<1>1. exists \in SUBSET Files /\ Files \subseteq Nat /\ Backups \in Nat /\ Backups > 0
  BY Sizes, FileNumbers DEF IInv, TypeOK
<1>2. FullBackups /\ LossSpares
  BY DEF KeepInv
<1>3. Backups \in FullFiles
  BY <1>1, <1>2 DEF FullBackups, LossSpares, FullFiles
<1>4. TypeOK
  BY DEF IInv
<1>5. Cardinality({Backups}) = 1 /\ IsFiniteSet({Backups})
  BY FS_Singleton
<1>6. CASE Backups = 1
  <2>1. {Backups} \in SUBSET FullFiles
    BY <1>3
  <2> QED BY <1>4, <1>5, <1>6, <2>1, AtLeast
<1>7. CASE Backups # 1
  <2>1. PICK i \in exists : i < Backups /\ bytes[i] >= Limit
    BY <1>1, <1>2, <1>7 DEF LossSpares
  <2>2. {Backups} \cup {i} \in SUBSET FullFiles /\ i # Backups
    BY <1>1, <1>3, <2>1 DEF FullFiles
  <2>3. Cardinality({Backups} \cup {i}) = 2
    BY <1>5, <2>2, FS_AddElement
  <2> QED BY <1>4, <1>7, <2>2, <2>3, AtLeast
<1> QED BY <1>6, <1>7

\* When lines have been given up there are as many full files as there are
\* backups, however long the log has been running; two are left, at the least,
\* of a daemon that is stopped in the middle of rotations again and again.
THEOREM BackupsAreKept == Spec => []KeepsBackups
<1>1. Init => KeepInv
  <2> SUFFICES ASSUME Init
               PROVE  KeepInv
    OBVIOUS
  <2>1. \A l : l \notin Kept
    BY DEF Init, Kept
  <2>2. last = 0
    BY DEF Init
  <2>3. ~Lost
    BY <2>1, <2>2 DEF Lost
  <2> QED BY <2>3 DEF Init, KeepInv, InPlace, FullBackups, LossSpares, NoGap
<1>2. IInv /\ KeepInv /\ [Next]_vars => KeepInv'
  BY KeepStep
<1>3. IInv /\ KeepInv => KeepsBackups
  <2> SUFFICES ASSUME IInv, KeepInv, Calm, Lost
               PROVE  Cardinality(FullFiles) >= Spared
    BY DEF KeepsBackups, Calm, Lost
  <2> QED BY WithoutStops, WithStops DEF Spared
<1> QED BY <1>1, <1>2, <1>3, Invariance, PTL DEF Spec
=============================================================================
