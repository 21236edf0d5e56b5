---------------------------- MODULE LoaderProofs ----------------------------
(***************************************************************************)
(* Theorems about Loader, for any files of any length: what a whole file   *)
(* leaves in memory, and that a changed byte is found.                     *)
(*                                                                         *)
(* loader and the sum of a record are recursive functions, which TLA+      *)
(* defines as a function CHOOSEn to satisfy the recursion: the first thing *)
(* to show of each is that there is such a function (StepsExist,           *)
(* SumsExist).  Induction goes by the least counterexample.                *)
(***************************************************************************)
EXTENDS Loader, FiniteSets, SequenceTheorems, FiniteSetTheorems, WellFoundedInduction, TLAPS

\* One record, unless an earlier one was refused.
Taken(loaded, r) ==
  IF loaded.flag # VALID_RECORD THEN loaded ELSE s_record_decoder(loaded, r)

Begun(loaded) == [loaded EXCEPT !.flag = VALID_RECORD]

\* after is the loading of the first n records, step by step.
Follows(loaded, file, after, n) ==
  after = [i \in 0..n |-> IF i = 0 THEN Begun(loaded) ELSE Taken(after[i - 1], file[i])]

LEMMA LeastElement ==
  ASSUME NEW S \in SUBSET Nat, S # {}
  PROVE  \E n \in S : \A k \in S : n <= k
<1>. DEFINE R == {p \in Nat \X Nat : p[1] < p[2]}
<1>1. IsWellFoundedOn(R, Nat)
  BY NatLessThanWellFounded DEF OpToRel
<1>2. PICK x \in S : \A y \in S : ~(<<y, x>> \in R)
  <2>. HIDE DEF R
  <2>. QED BY <1>1, WFMin
<1>3. ASSUME NEW y \in S PROVE x <= y
  <2>1. x \in Nat /\ y \in Nat /\ ~(y < x)
    BY <1>2
  <2>. QED BY <2>1
<1>. QED BY <1>3

LEMMA StepsExist ==
  ASSUME NEW loaded, NEW file, NEW n \in Nat
  PROVE  \E after : Follows(loaded, file, after, n)
<1>. DEFINE Bad == {k \in Nat : ~\E after : Follows(loaded, file, after, k)}
<1>1. ASSUME Bad # {} PROVE FALSE
  <2>1. PICK k \in Bad : \A j \in Bad : k <= j
    BY <1>1, LeastElement
  <2>2. k \in Nat /\ ~\E after : Follows(loaded, file, after, k)
    OBVIOUS
  <2>3. CASE k = 0
    <3>. DEFINE f == [i \in 0..0 |-> Begun(loaded)]
    <3>1. f = [i \in 0..0 |-> IF i = 0 THEN Begun(loaded) ELSE Taken(f[i - 1], file[i])]
      <4>1. \A i \in 0..0 : i = 0
        OBVIOUS
      <4>. QED BY <4>1
    <3>2. Follows(loaded, file, f, 0)
      BY <3>1 DEF Follows
    <3>. QED BY <2>2, <2>3, <3>2
  <2>4. CASE k # 0
    <3>1. k - 1 \in Nat /\ ~(k <= k - 1)
      BY <2>2, <2>4
    <3>2. PICK f : Follows(loaded, file, f, k - 1)
      BY <2>1, <3>1
    <3>. DEFINE g == [i \in 0..k |-> IF i = k THEN Taken(f[k - 1], file[k]) ELSE f[i]]
    <3>3. \A i \in 0..k : g[i] = IF i = 0 THEN Begun(loaded) ELSE Taken(g[i - 1], file[i])
      <4>. TAKE i \in 0..k
      <4>1. CASE i = k
        <5>1. g[i] = Taken(f[k - 1], file[k]) /\ g[k - 1] = f[k - 1]
          BY <2>2, <3>1, <4>1
        <5>. QED BY <2>4, <4>1, <5>1
      <4>2. CASE i # k
        <5>1. i \in 0..(k - 1)
          BY <2>2, <4>2
        <5>2. f[i] = IF i = 0 THEN Begun(loaded) ELSE Taken(f[i - 1], file[i])
          BY <3>2, <5>1 DEF Follows
        <5>3. g[i] = f[i]
          BY <4>2
        <5>4. i # 0 => i - 1 \in 0..k /\ i - 1 # k
          BY <2>2, <5>1
        <5>5. i # 0 => g[i - 1] = f[i - 1]
          BY <5>4
        <5>. QED BY <5>2, <5>3, <5>5
      <4>. QED BY <4>1, <4>2
    <3>4. DOMAIN g = 0..k /\ g = [i \in 0..k |-> g[i]]
      OBVIOUS
    <3>. HIDE DEF g
    <3>5. Follows(loaded, file, g, k)
      BY <3>3, <3>4 DEF Follows
    <3>. QED BY <2>2, <3>5
  <2>. QED BY <2>3, <2>4
<1>. QED BY <1>1

\* The recursion that defines loader, unfolded.
LEMMA LoaderSteps ==
  ASSUME NEW loaded, NEW file \in Seq(Records)
  PROVE  \E after :
           /\ loader(loaded, file) = after[Len(file)]
           /\ after[0] = Begun(loaded)
           /\ \A i \in 1..Len(file) : after[i] = Taken(after[i - 1], file[i])
<1>. DEFINE n == Len(file)
            after == CHOOSE f : Follows(loaded, file, f, n)
<1>1. n \in Nat
  OBVIOUS
<1>2. loader(loaded, file) = after[n]
  BY DEF loader, Follows, Taken, Begun
<1>3. Follows(loaded, file, after, n)
  BY <1>1, StepsExist
<1>. HIDE DEF n, after
<1>4. \A i \in 0..n : after[i] = IF i = 0 THEN Begun(loaded) ELSE Taken(after[i - 1], file[i])
  BY <1>3 DEF Follows
<1>5. after[0] = Begun(loaded) /\ \A i \in 1..n : after[i] = Taken(after[i - 1], file[i])
  BY <1>1, <1>4
<1>. QED BY <1>2, <1>5 DEF n

-----------------------------------------------------------------------------
\* The types of what is loaded, and one record.
Loadeds ==
  [byte : [Addresses -> Bytes], PC : Nat, program_name : Seq(Bytes),
   flag : {VALID_RECORD, CHECKSUM_ERROR, S_RECORD_ERROR}]

LEMMA FlagsDiffer ==
  /\ VALID_RECORD # CHECKSUM_ERROR /\ VALID_RECORD # S_RECORD_ERROR
  /\ CHECKSUM_ERROR # S_RECORD_ERROR
  BY DEF VALID_RECORD, CHECKSUM_ERROR, S_RECORD_ERROR

LEMMA ByteRange ==
  ASSUME NEW b \in Bytes
  PROVE  b \in Nat /\ b <= 255
  BY DEF Bytes

LEMMA LoadedAddressType ==
  ASSUME NEW r \in Records
  PROVE  loaded_address(r) \in Nat
<1>1. r.address[1] \in Bytes /\ r.address[2] \in Bytes
  BY DEF Records
<1>2. r.address[1] \in Nat /\ r.address[2] \in Nat
  BY <1>1, ByteRange
<1>. QED BY <1>2 DEF loaded_address

LEMMA WrittenType ==
  ASSUME NEW loaded \in Loadeds, NEW r \in Records
  PROVE  Written(loaded, r) \in Loadeds /\ Written(loaded, r).flag = loaded.flag
<1>1. loaded_address(r) \in Nat /\ r.address[1] \in Bytes /\ r.address[2] \in Bytes
  BY LoadedAddressType DEF Records
<1>2. CASE r.type = 9
  <2>. DEFINE mem == [loaded.byte EXCEPT ![LAST_BYTE - 1] = r.address[2],
                                         ![LAST_BYTE] = r.address[1]]
  <2>1. mem \in [Addresses -> Bytes]
    BY <1>1 DEF Loadeds
  <2>2. Written(loaded, r) = [loaded EXCEPT !.PC = loaded_address(r), !.byte = mem]
    BY <1>2 DEF Written
  <2>. HIDE DEF mem
  <2>. QED BY <1>1, <2>1, <2>2 DEF Loadeds
<1>3. CASE r.type = 1
  <2>. DEFINE mem == [a \in Addresses |->
                IF a \in Covered(r) THEN r.data[a - loaded_address(r) + 1] ELSE loaded.byte[a]]
  <2>1. ASSUME NEW a \in Covered(r) PROVE r.data[a - loaded_address(r) + 1] \in Bytes
    <3>1. PICK k \in DOMAIN r.data : a = loaded_address(r) + k - 1
      BY <2>1 DEF Covered
    <3>2. r.data \in Seq(Bytes) /\ k \in Nat /\ k \in 1..Len(r.data)
      BY <3>1 DEF Records
    <3>3. a - loaded_address(r) + 1 = k
      BY <1>1, <3>1, <3>2
    <3>. QED BY <3>2, <3>3, ElementOfSeq
  <2>2. mem \in [Addresses -> Bytes]
    BY <2>1 DEF Loadeds
  <2>3. Written(loaded, r) = [loaded EXCEPT !.byte = mem]
    BY <1>3 DEF Written
  <2>. HIDE DEF mem
  <2>. QED BY <2>2, <2>3 DEF Loadeds
<1>4. CASE r.type = 0
  <2>. DEFINE name == r.data \o SubSeq(loaded.program_name, Len(r.data) + 1, Len(loaded.program_name))
  <2>1. r.data \in Seq(Bytes) /\ Len(r.data) \in Nat /\ loaded.program_name \in Seq(Bytes)
    BY DEF Records, Loadeds
  <2>2. SubSeq(loaded.program_name, Len(r.data) + 1, Len(loaded.program_name)) \in Seq(Bytes)
    <3>1. \A i \in (Len(r.data) + 1)..Len(loaded.program_name) : loaded.program_name[i] \in Bytes
      BY <2>1, ElementOfSeq
    <3>. QED BY <2>1, <3>1, SubSeqProperties
  <2>3. name \in Seq(Bytes)
    BY <2>1, <2>2, ConcatProperties
  <2>4. Written(loaded, r) = [loaded EXCEPT !.program_name = name]
    BY <1>4 DEF Written
  <2>. HIDE DEF name
  <2>. QED BY <2>3, <2>4 DEF Loadeds
<1>5. CASE r.type \notin {0, 1, 9}
  BY <1>5 DEF Written
<1>. QED BY <1>2, <1>3, <1>4, <1>5

LEMMA TakenType ==
  ASSUME NEW loaded \in Loadeds, NEW r \in Records
  PROVE  Taken(loaded, r) \in Loadeds
<1>1. [loaded EXCEPT !.flag = S_RECORD_ERROR] \in Loadeds
  BY DEF Loadeds
<1>. DEFINE f == IF r.type = 0 THEN VALID_RECORD
                 ELSE checksum_validation(validation_sum(r), r.checksum)
            w == Written(loaded, r)
<1>2. f \in {VALID_RECORD, CHECKSUM_ERROR, S_RECORD_ERROR}
  BY DEF checksum_validation
<1>3. w \in Loadeds
  BY WrittenType
<1>4. s_record_decoder(loaded, r) =
        IF ~r.S THEN [loaded EXCEPT !.flag = S_RECORD_ERROR] ELSE [w EXCEPT !.flag = f]
  BY DEF s_record_decoder
<1>. HIDE DEF w, f
<1>5. [w EXCEPT !.flag = f] \in Loadeds
  BY <1>2, <1>3 DEF Loadeds
<1>. QED BY <1>1, <1>4, <1>5 DEF Taken

LEMMA BlankType == Blank \in Loadeds /\ Begun(Blank) = Blank
<1>1. 0 \in Bytes /\ << >> \in Seq(Bytes)
  BY DEF Bytes
<1>. QED BY <1>1 DEF Blank, Loadeds, Begun

\* A record that is taken: the next writes where it says, and nothing else.
LEMMA TakenSays ==
  ASSUME NEW loaded \in Loadeds, NEW r \in Records, loaded.flag = VALID_RECORD, r.S,
         NEW a \in Addresses
  PROVE  /\ Says(r, a) = {} => Taken(loaded, r).byte[a] = loaded.byte[a]
         /\ Says(r, a) # {} => Says(r, a) = {Taken(loaded, r).byte[a]}
<1>. DEFINE w == Written(loaded, r)
<1>1. Taken(loaded, r).byte = w.byte
  <2>1. w \in Loadeds
    BY WrittenType
  <2>. DEFINE f == IF r.type = 0 THEN VALID_RECORD
                   ELSE checksum_validation(validation_sum(r), r.checksum)
  <2>2. Taken(loaded, r) = [w EXCEPT !.flag = f]
    BY DEF Taken, s_record_decoder
  <2>. HIDE DEF w, f
  <2>. QED BY <2>1, <2>2 DEF Loadeds
<1>2. CASE r.type = 9
  <2>. DEFINE mem == [loaded.byte EXCEPT ![LAST_BYTE - 1] = r.address[2],
                                         ![LAST_BYTE] = r.address[1]]
  <2>1. w = [loaded EXCEPT !.PC = loaded_address(r), !.byte = mem]
    BY <1>2 DEF Written
  <2>2. mem[a] = IF a = LAST_BYTE THEN r.address[1]
                 ELSE IF a = LAST_BYTE - 1 THEN r.address[2] ELSE loaded.byte[a]
    <3>1. LAST_BYTE # LAST_BYTE - 1
      BY DEF LAST_BYTE
    <3>. QED BY <3>1 DEF Loadeds
  <2>. HIDE DEF mem
  <2>3. w.byte = mem
    BY <2>1 DEF Loadeds
  <2>4. Says(r, a) = IF a = LAST_BYTE THEN {r.address[1]}
                     ELSE IF a = LAST_BYTE - 1 THEN {r.address[2]} ELSE {}
    BY <1>2 DEF Says, LAST_BYTE
  <2>. HIDE DEF w
  <2>. QED BY <1>1, <2>2, <2>3, <2>4
<1>3. CASE r.type = 1
  <2>1. w.byte[a] = IF a \in Covered(r) THEN r.data[a - loaded_address(r) + 1] ELSE loaded.byte[a]
    BY <1>3 DEF Written, Loadeds
  <2>2. Says(r, a) = IF a \in Covered(r) THEN {r.data[a - loaded_address(r) + 1]} ELSE {}
    BY <1>3 DEF Says
  <2>. HIDE DEF w
  <2>. QED BY <1>1, <2>1, <2>2
<1>4. CASE r.type \notin {1, 9}
  <2>1. Says(r, a) = {}
    BY <1>4 DEF Says
  <2>2. w.byte = loaded.byte
    BY <1>4 DEF Written, Loadeds
  <2>. HIDE DEF w
  <2>. QED BY <1>1, <2>1, <2>2
<1>. QED BY <1>2, <1>3, <1>4

-----------------------------------------------------------------------------
\* The steps of a loading.
Steps(file, after) ==
  /\ loader(Blank, file) = after[Len(file)]
  /\ after[0] = Blank
  /\ \A i \in 1..Len(file) : after[i] = Taken(after[i - 1], file[i])

LEMMA StepsTyped ==
  ASSUME NEW file \in Seq(Records), NEW after, Steps(file, after)
  PROVE  \A i \in 0..Len(file) : after[i] \in Loadeds
<1>. DEFINE n   == Len(file)
            Bad == {i \in 0..n : after[i] \notin Loadeds}
<1>1. n \in Nat
  OBVIOUS
<1>2. ASSUME Bad # {} PROVE FALSE
  <2>1. Bad \subseteq Nat
    BY <1>1
  <2>2. PICK k \in Bad : \A j \in Bad : k <= j
    BY <1>2, <2>1, LeastElement
  <2>3. k # 0
    BY <2>2, BlankType DEF Steps
  <2>4. k - 1 \in 0..n /\ k \in 1..n /\ ~(k <= k - 1)
    BY <1>1, <2>2, <2>3
  <2>5. after[k - 1] \in Loadeds
    BY <2>2, <2>4
  <2>6. file[k] \in Records
    BY <2>4, ElementOfSeq
  <2>7. after[k] \in Loadeds
    BY <2>4, <2>5, <2>6, TakenType DEF Steps
  <2>. QED BY <2>2, <2>7
<1>. QED BY <1>2

\* After an error nothing more is taken.
LEMMA StopsAtError ==
  ASSUME NEW file \in Seq(Records), NEW after, Steps(file, after),
         NEW i \in 0..Len(file), after[i].flag # VALID_RECORD
  PROVE  \A j \in i..Len(file) : after[j] = after[i]
<1>. DEFINE n   == Len(file)
            Bad == {j \in i..n : after[j] # after[i]}
<1>1. n \in Nat /\ i \in Nat /\ i <= n
  OBVIOUS
<1>2. ASSUME Bad # {} PROVE FALSE
  <2>1. Bad \subseteq Nat
    BY <1>1
  <2>2. PICK k \in Bad : \A j \in Bad : k <= j
    BY <1>2, <2>1, LeastElement
  <2>3. k \in i..n /\ k # i /\ after[k] # after[i]
    BY <2>2
  <2>4. k - 1 \in i..n /\ k \in 1..n /\ ~(k <= k - 1)
    BY <1>1, <2>3
  <2>5. after[k - 1] = after[i]
    BY <2>2, <2>4
  <2>6. after[k] = after[k - 1]
    BY <2>4, <2>5 DEF Steps, Taken
  <2>. QED BY <2>3, <2>5, <2>6
<1>. QED BY <1>2

LEMMA WholeValid ==
  ASSUME NEW file \in Seq(Records), NEW after, Steps(file, after),
         loader(Blank, file).flag = VALID_RECORD
  PROVE  /\ \A i \in 0..Len(file) : after[i].flag = VALID_RECORD
         /\ \A i \in 1..Len(file) : file[i].S
<1>1. ASSUME NEW i \in 0..Len(file), after[i].flag # VALID_RECORD PROVE FALSE
  <2>1. Len(file) \in i..Len(file)
    OBVIOUS
  <2>2. after[Len(file)] = after[i]
    BY <1>1, <2>1, StopsAtError
  <2>. QED BY <1>1, <2>2 DEF Steps
<1>2. ASSUME NEW i \in 1..Len(file), ~file[i].S PROVE FALSE
  <2>1. i - 1 \in 0..Len(file) /\ i \in 0..Len(file)
    OBVIOUS
  <2>2. after[i - 1] \in Loadeds /\ after[i - 1].flag = VALID_RECORD /\ after[i].flag = VALID_RECORD
    BY <1>1, <2>1, StepsTyped
  <2>3. after[i] = [after[i - 1] EXCEPT !.flag = S_RECORD_ERROR]
    BY <1>2, <2>2 DEF Steps, Taken, s_record_decoder
  <2>4. after[i].flag = S_RECORD_ERROR
    BY <2>2, <2>3 DEF Loadeds
  <2>. QED BY <2>2, <2>4, FlagsDiffer
<1>. QED BY <1>1, <1>2

\* What memory holds at address a after i records: what the last of them to speak of
\* it says, or what was there before.
LastSays(file, after, a, i) ==
  /\ (\A j \in 1..i : Says(file[j], a) = {}) => after[i].byte[a] = Blank.byte[a]
  /\ \A j \in 1..i :
       Says(file[j], a) # {} /\ (\A k \in (j + 1)..i : Says(file[k], a) = {})
         => Says(file[j], a) = {after[i].byte[a]}

LEMMA LastSaysHolds ==
  ASSUME NEW file \in Seq(Records), NEW after, Steps(file, after),
         loader(Blank, file).flag = VALID_RECORD, NEW a \in Addresses
  PROVE  LastSays(file, after, a, Len(file))
<1>. DEFINE n   == Len(file)
            Bad == {i \in 0..n : ~LastSays(file, after, a, i)}
<1>1. n \in Nat
  OBVIOUS
<1>2. ASSUME Bad # {} PROVE FALSE
  <2>1. Bad \subseteq Nat
    BY <1>1
  <2>2. PICK i \in Bad : \A j \in Bad : i <= j
    BY <1>2, <2>1, LeastElement
  <2>3. i \in 0..n /\ ~LastSays(file, after, a, i)
    BY <2>2
  <2>4. i # 0
    <3>1. LastSays(file, after, a, 0)
      BY DEF LastSays, Steps
    <3>. QED BY <2>3, <3>1
  <2>5. i - 1 \in 0..n /\ i \in 1..n /\ ~(i <= i - 1)
    BY <1>1, <2>3, <2>4
  <2>6. LastSays(file, after, a, i - 1)
    BY <2>2, <2>5
  <2>. DEFINE r == file[i]
              old == after[i - 1].byte[a]
              new == after[i].byte[a]
  <2>7. /\ Says(r, a) = {} => new = old
        /\ Says(r, a) # {} => Says(r, a) = {new}
    <3>1. after[i - 1] \in Loadeds /\ after[i - 1].flag = VALID_RECORD /\ r.S
      BY <2>5, StepsTyped, WholeValid
    <3>2. r \in Records
      BY <2>5, ElementOfSeq
    <3>3. after[i] = Taken(after[i - 1], r)
      BY <2>5 DEF Steps
    <3>. QED BY <3>1, <3>2, <3>3, TakenSays
  <2>8. ASSUME \A j \in 1..i : Says(file[j], a) = {} PROVE new = Blank.byte[a]
    <3>1. i \in 1..i /\ 1..(i - 1) \subseteq 1..i
      BY <1>1, <2>5
    <3>2. Says(r, a) = {} /\ \A j \in 1..(i - 1) : Says(file[j], a) = {}
      BY <2>8, <3>1
    <3>. QED BY <2>6, <2>7, <3>2 DEF LastSays
  <2>9. ASSUME NEW j \in 1..i, Says(file[j], a) # {}, \A k \in (j + 1)..i : Says(file[k], a) = {}
        PROVE  Says(file[j], a) = {new}
    <3>1. CASE j = i
      BY <2>7, <2>9, <3>1
    <3>2. CASE j # i
      <4>1. /\ j \in 1..(i - 1) /\ i \in (j + 1)..i
            /\ (j + 1)..(i - 1) \subseteq (j + 1)..i
        BY <1>1, <2>5, <3>2
      <4>2. Says(r, a) = {} /\ \A k \in (j + 1)..(i - 1) : Says(file[k], a) = {}
        BY <2>9, <4>1
      <4>. QED BY <2>6, <2>7, <2>9, <4>1, <4>2 DEF LastSays
    <3>. QED BY <3>1, <3>2
  <2>. HIDE DEF r, new, old
  <2>10. LastSays(file, after, a, i)
    BY <2>8, <2>9 DEF LastSays, new
  <2>. QED BY <2>3, <2>10
<1>3. n \in 0..n
  BY <1>1
<1>. QED BY <1>2, <1>3

\* A whole file is in memory afterwards, whatever its length and however its records
\* overlap (Loader.cpp:25-60 goes through them in the order of the file).
THEOREM WholeFileLoaded == LoadedIntact
<1>. SUFFICES ASSUME NEW file \in Whole, NEW a \in Addresses
              PROVE  LET speak == {i \in DOMAIN file : Says(file[i], a) # {}}
                     IN  {loader(Blank, file).byte[a]} =
                           IF speak = {} THEN {Blank.byte[a]}
                           ELSE Says(file[CHOOSE i \in speak : \A j \in speak : j <= i], a)
  BY DEF LoadedIntact
<1>. DEFINE n     == Len(file)
            speak == {i \in DOMAIN file : Says(file[i], a) # {}}
<1>1. file \in Seq(Records) /\ loader(Blank, file).flag = VALID_RECORD
  BY LoaderAssumption DEF Whole
<1>2. n \in Nat /\ DOMAIN file = 1..n
  BY <1>1
<1>3. PICK after : Steps(file, after)
  BY <1>1, BlankType, LoaderSteps DEF Steps
<1>4. LastSays(file, after, a, n) /\ loader(Blank, file) = after[n]
  BY <1>1, <1>3, LastSaysHolds DEF Steps
<1>5. CASE speak = {}
  <2>1. \A j \in 1..n : Says(file[j], a) = {}
    BY <1>2, <1>5
  <2>. QED BY <1>4, <1>5, <2>1 DEF LastSays
<1>6. CASE speak # {}
  <2>. DEFINE S == {n - i : i \in speak}
              last == CHOOSE i \in speak : \A j \in speak : j <= i
  <2>1. \A i \in speak : i \in Nat /\ n - i \in Nat
    BY <1>2
  <2>2. S \subseteq Nat /\ S # {}
    BY <1>6, <2>1
  <2>3. PICK x \in S : \A y \in S : x <= y
    BY <2>2, LeastElement
  <2>4. PICK i \in speak : x = n - i
    OBVIOUS
  <2>5. ASSUME NEW j \in speak PROVE j <= i
    <3>1. n - j \in S /\ j \in Nat /\ i \in Nat
      BY <2>1
    <3>2. n - i <= n - j
      BY <2>3, <2>4, <3>1
    <3>. QED BY <1>2, <3>1, <3>2
  <2>6. last \in speak /\ \A j \in speak : j <= last
    BY <2>5
  <2>. HIDE DEF last
  <2>7. last \in 1..n /\ Says(file[last], a) # {}
    BY <1>2, <2>6
  <2>8. \A k \in (last + 1)..n : Says(file[k], a) = {}
    BY <1>2, <2>6, <2>7
  <2>9. Says(file[last], a) = {after[n].byte[a]}
    BY <1>4, <2>7, <2>8 DEF LastSays
  <2>. QED BY <1>4, <1>6, <2>9 DEF last
<1>. HIDE DEF speak
<1>. QED BY <1>5, <1>6 DEF speak

-----------------------------------------------------------------------------
\* The sum of a record's data.  SumFunction takes one index at a time out of a set.
Pick(s) == CHOOSE x \in s : TRUE

Small(D, k) == {s \in SUBSET D : Cardinality(s) <= k}

\* iter gives the sum of fun over each set of Sets.
Sums(Sets, fun, iter) ==
  iter = [s \in Sets |-> IF s = {} THEN 0 ELSE fun[Pick(s)] + iter[s \ {Pick(s)}]]

LEMMA PickSmaller ==
  ASSUME NEW s, s # {}, IsFiniteSet(s)
  PROVE  /\ Pick(s) \in s
         /\ IsFiniteSet(s \ {Pick(s)}) /\ Cardinality(s) \in Nat
         /\ Cardinality(s \ {Pick(s)}) = Cardinality(s) - 1
<1>1. Pick(s) \in s
  BY DEF Pick
<1>. QED BY <1>1, FS_CardinalityType, FS_RemoveElement

LEMMA SumsExist ==
  ASSUME NEW D, IsFiniteSet(D), NEW fun, NEW n \in Nat
  PROVE  \E iter : Sums(Small(D, n), fun, iter)
<1>. DEFINE Bad == {k \in Nat : ~\E iter : Sums(Small(D, k), fun, iter)}
<1>0. \A s \in SUBSET D : IsFiniteSet(s) /\ Cardinality(s) \in Nat
  BY FS_Subset, FS_CardinalityType
<1>1. ASSUME Bad # {} PROVE FALSE
  <2>1. PICK k \in Bad : \A j \in Bad : k <= j
    BY <1>1, LeastElement
  <2>2. k \in Nat /\ ~\E iter : Sums(Small(D, k), fun, iter)
    OBVIOUS
  <2>3. CASE k = 0
    <3>. DEFINE f == [s \in Small(D, 0) |-> 0]
    <3>1. \A s \in Small(D, 0) : s = {}
      BY <1>0, FS_EmptySet DEF Small
    <3>2. f = [s \in Small(D, 0) |-> IF s = {} THEN 0 ELSE fun[Pick(s)] + f[s \ {Pick(s)}]]
      BY <3>1
    <3>. HIDE DEF f
    <3>3. Sums(Small(D, 0), fun, f)
      BY <3>2 DEF Sums
    <3>. QED BY <2>2, <2>3, <3>3
  <2>4. CASE k # 0
    <3>1. k - 1 \in Nat /\ ~(k <= k - 1)
      BY <2>2, <2>4
    <3>2. PICK f : Sums(Small(D, k - 1), fun, f)
      BY <2>1, <3>1
    <3>. DEFINE g == [s \in Small(D, k) |->
                       IF s = {} THEN 0 ELSE fun[Pick(s)] + f[s \ {Pick(s)}]]
    <3>3. ASSUME NEW s \in Small(D, k)
          PROVE  g[s] = IF s = {} THEN 0 ELSE fun[Pick(s)] + g[s \ {Pick(s)}]
      <4>1. CASE s = {}
        BY <4>1
      <4>2. CASE s # {}
        <5>. DEFINE t == s \ {Pick(s)}
        <5>1. t \in Small(D, k - 1) /\ t \in Small(D, k)
          <6>1. s \in SUBSET D /\ Cardinality(s) <= k /\ t \in SUBSET D
            BY DEF Small
          <6>2. Cardinality(s) \in Nat /\ Cardinality(t) = Cardinality(s) - 1
            BY <1>0, <4>2, <6>1, PickSmaller
          <6>. QED BY <2>2, <6>1, <6>2 DEF Small
        <5>. HIDE DEF t
        <5>2. f[t] = IF t = {} THEN 0 ELSE fun[Pick(t)] + f[t \ {Pick(t)}]
          BY <3>2, <5>1 DEF Sums
        <5>3. g[t] = f[t]
          BY <5>1, <5>2
        <5>4. g[s] = fun[Pick(s)] + f[t]
          BY <4>2 DEF t
        <5>. QED BY <4>2, <5>3, <5>4 DEF t
      <4>. QED BY <4>1, <4>2
    <3>4. g = [s \in Small(D, k) |-> g[s]]
      OBVIOUS
    <3>. HIDE DEF g
    <3>5. Sums(Small(D, k), fun, g)
      BY <3>3, <3>4 DEF Sums
    <3>. QED BY <2>2, <3>5
  <2>. QED BY <2>3, <2>4
<1>. QED BY <1>1

\* The recursion of SumFunction, unfolded.
LEMMA SumSteps ==
  ASSUME NEW fun, IsFiniteSet(DOMAIN fun)
  PROVE  \E iter : /\ SumFunction(fun) = iter[DOMAIN fun]
                   /\ Sums(SUBSET DOMAIN fun, fun, iter)
<1>. DEFINE D    == DOMAIN fun
            iter == CHOOSE f : Sums(SUBSET D, fun, f)
<1>1. SumFunction(fun) = iter[D]
  BY DEF SumFunction, SumFunctionOnSet, FoldFunctionOnSet, MapThenFoldSet, Sums, Pick
<1>2. SUBSET D = Small(D, Cardinality(D)) /\ Cardinality(D) \in Nat
  BY FS_Subset, FS_CardinalityType DEF Small
<1>3. Sums(SUBSET D, fun, iter)
  <2>1. \E f : Sums(Small(D, Cardinality(D)), fun, f)
    BY <1>2, SumsExist
  <2>2. \E f : Sums(SUBSET D, fun, f)
    BY <1>2, <2>1
  <2>. QED BY <2>2
<1>. QED BY <1>1, <1>3

\* A sum changes by what one of its terms changes.
LEMMA SumChanges ==
  ASSUME NEW n \in Nat, NEW f \in [1..n -> Nat], NEW g \in [1..n -> Nat], NEW i \in 1..n,
         \A j \in 1..n : j # i => f[j] = g[j]
  PROVE  /\ SumFunction(f) \in Nat /\ SumFunction(g) \in Nat
         /\ SumFunction(f) - f[i] = SumFunction(g) - g[i]
         /\ SumFunction(f) - f[i] \in Nat
<1>. DEFINE D == 1..n
<1>1. IsFiniteSet(D) /\ DOMAIN f = D /\ DOMAIN g = D
  BY FS_Interval
<1>2. PICK F : SumFunction(f) = F[D] /\ Sums(SUBSET D, f, F)
  BY <1>1, SumSteps
<1>3. PICK G : SumFunction(g) = G[D] /\ Sums(SUBSET D, g, G)
  BY <1>1, SumSteps
<1>4. \A s \in SUBSET D : IsFiniteSet(s) /\ Cardinality(s) \in Nat
  BY <1>1, FS_Subset, FS_CardinalityType
<1>. DEFINE Fine(s) == /\ F[s] \in Nat /\ G[s] \in Nat
                       /\ i \notin s => F[s] = G[s]
                       /\ i \in s => F[s] - f[i] = G[s] - g[i] /\ F[s] - f[i] \in Nat
            Bad == {k \in Nat : \E s \in SUBSET D : Cardinality(s) = k /\ ~Fine(s)}
<1>5. ASSUME Bad # {} PROVE FALSE
  <2>1. PICK k \in Bad : \A j \in Bad : k <= j
    BY <1>5, LeastElement
  <2>2. PICK s \in SUBSET D : Cardinality(s) = k /\ ~Fine(s)
    BY <2>1
  <2>3. s # {}
    <3>1. F[{}] = 0 /\ G[{}] = 0
      BY <1>2, <1>3 DEF Sums
    <3>2. Fine({})
      BY <3>1
    <3>. HIDE DEF Fine
    <3>. QED BY <2>2, <3>2
  <2>. DEFINE x == Pick(s)
              t == s \ {x}
  <2>4. x \in D /\ x \in s /\ t \in SUBSET D /\ Cardinality(t) = k - 1 /\ k \in Nat
    BY <1>4, <2>2, <2>3, PickSmaller
  <2>5. Fine(t)
    <3>1. Cardinality(t) \in Nat /\ ~(k <= Cardinality(t))
      BY SMTT(30), <1>4, <2>4
    <3>. HIDE DEF Fine
    <3>2. Cardinality(t) \notin Bad
      BY <2>1, <3>1
    <3>. QED BY <2>4, <3>1, <3>2
  <2>6. F[s] = f[x] + F[t] /\ G[s] = g[x] + G[t]
    BY <1>2, <1>3, <2>3 DEF Sums
  <2>7. f[x] \in Nat /\ g[x] \in Nat /\ f[i] \in Nat /\ g[i] \in Nat
    BY <2>4
  <2>8. CASE x = i
    <3>1. i \notin t /\ i \in s
      BY <2>4, <2>8
    <3>. HIDE DEF t
    <3>2. F[t] = G[t] /\ F[t] \in Nat
      BY <2>5, <3>1
    <3>. QED BY <2>2, <2>6, <2>7, <2>8, <3>1, <3>2
  <2>9. CASE x # i
    <3>1. (i \in t <=> i \in s) /\ f[x] = g[x]
      BY <2>4, <2>9
    <3>. HIDE DEF t, x
    <3>2. F[t] \in Nat /\ G[t] \in Nat /\ F[s] \in Nat /\ G[s] \in Nat
      <4>1. F[t] \in Nat /\ G[t] \in Nat
        BY <2>5
      <4>. QED BY ONLY <2>6, <2>7, <4>1
    <3>3. CASE i \in s
      <4>1. F[t] - f[i] = G[t] - g[i] /\ F[t] - f[i] \in Nat
        BY <2>5, <3>1, <3>3
      <4>2. F[s] - f[i] = f[x] + (F[t] - f[i]) /\ G[s] - g[i] = g[x] + (G[t] - g[i])
        <5>1. ASSUME NEW a \in Nat, NEW b \in Nat, NEW c \in Nat, NEW d, d = a + b
              PROVE  d - c = a + (b - c)
          BY <5>1
        <5>2. F[s] - f[i] = f[x] + (F[t] - f[i])
          <6>. DEFINE a == f[x]  b == F[t]  c == f[i]  d == F[s]
          <6>1. a \in Nat /\ b \in Nat /\ c \in Nat /\ d = a + b
            BY ONLY <2>6, <2>7, <3>2
          <6>. HIDE DEF a, b, c, d
          <6>2. d - c = a + (b - c)
            BY ONLY <6>1, <5>1
          <6>. QED BY ONLY <6>2 DEF a, b, c, d
        <5>3. G[s] - g[i] = g[x] + (G[t] - g[i])
          <6>. DEFINE a == g[x]  b == G[t]  c == g[i]  d == G[s]
          <6>1. a \in Nat /\ b \in Nat /\ c \in Nat /\ d = a + b
            BY ONLY <2>6, <2>7, <3>2
          <6>. HIDE DEF a, b, c, d
          <6>2. d - c = a + (b - c)
            BY ONLY <6>1, <5>1
          <6>. QED BY ONLY <6>2 DEF a, b, c, d
        <5>. QED BY ONLY <5>2, <5>3
      <4>3. F[s] - f[i] = G[s] - g[i] /\ F[s] - f[i] \in Nat
        BY <2>7, <3>1, <4>1, <4>2
      <4>. QED BY <2>2, <3>2, <3>3, <4>3
    <3>4. CASE i \notin s
      <4>1. F[t] = G[t]
        BY <2>5, <3>1, <3>4
      <4>2. F[s] = G[s]
        BY <2>6, <3>1, <4>1
      <4>. QED BY <2>2, <3>2, <3>4, <4>2
    <3>. QED BY <3>3, <3>4
  <2>. QED BY <2>8, <2>9
<1>6. Fine(D)
  <2>1. D \in SUBSET D /\ Cardinality(D) \in Nat
    BY <1>4
  <2>. HIDE DEF Fine, D
  <2>. QED BY <1>5, <2>1
<1>. QED BY <1>2, <1>3, <1>6

-----------------------------------------------------------------------------
\* The checksum tells two bytes apart, whatever the rest of the sum is.
LEMMA ByteTold ==
  ASSUME NEW sum \in Nat, NEW x \in Bytes, NEW y \in Bytes, x # y, NEW c,
         checksum_validation(sum + x, c) = VALID_RECORD
  PROVE  checksum_validation(sum + y, c) = CHECKSUM_ERROR
<1>1. x \in Nat /\ x <= 255 /\ y \in Nat /\ y <= 255
  BY ByteRange
<1>2. (sum + x) % 256 # (sum + y) % 256
  BY <1>1, SMTT(60)
<1>3. c = 255 - ((sum + x) % 256)
  BY FlagsDiffer DEF checksum_validation
<1>4. (sum + x) % 256 \in Int /\ (sum + y) % 256 \in Int
  BY <1>1
<1>5. 255 - ((sum + y) % 256) # c
  BY <1>2, <1>3, <1>4
<1>. QED BY <1>5 DEF checksum_validation

\* A change of one byte of the address of a record whose checksum is right is
\* found, whatever the record contains (the rest of its sum): this is the case of
\* FilesVerified in which a program would be loaded to the wrong place.
THEOREM AddressChecked ==
  ASSUME NEW r \in Records, NEW i \in 1..2, NEW b \in Bytes, b # r.address[i],
         NEW sum \in Nat,
         checksum_validation(sum + r.address[i], r.checksum) = VALID_RECORD
  PROVE  checksum_validation(sum + b, r.checksum) = CHECKSUM_ERROR
<1>1. r.address[i] \in Bytes
  BY DEF Records
<1>. QED BY <1>1, ByteTold

\* What the loader sums besides the data.
LEMMA RecordParts ==
  ASSUME NEW r \in Records
  PROVE  /\ r.address[1] \in Bytes /\ r.address[2] \in Bytes /\ r.checksum \in Bytes
         /\ r.data \in Seq(Bytes) /\ hex_pair_count(r) \in Nat
         /\ \A i \in DOMAIN r.data : r.data[i] \in Bytes
         /\ \E n \in Nat : DOMAIN r.data = 1..n
         /\ (IF r.type = 1 THEN SumFunction(r.data) ELSE 0) \in Nat
<1>1. /\ r.address[1] \in Bytes /\ r.address[2] \in Bytes /\ r.checksum \in Bytes
      /\ r.data \in Seq(Bytes)
  BY DEF Records
<1>2. Len(r.data) \in Nat /\ DOMAIN r.data = 1..Len(r.data)
  BY <1>1
<1>3. \A i \in DOMAIN r.data : r.data[i] \in Bytes
  BY <1>1, <1>2, ElementOfSeq
<1>4. hex_pair_count(r) \in Nat
  BY <1>2 DEF hex_pair_count
<1>5. SumFunction(r.data) \in Nat
  <2>1. r.data \in [1..Len(r.data) -> Nat]
    <3>1. \A i \in 1..Len(r.data) : r.data[i] \in Nat
      BY <1>2, <1>3, ByteRange
    <3>2. r.data = [i \in 1..Len(r.data) |-> r.data[i]]
      BY <1>1
    <3>. QED BY <3>1, <3>2
  <2>2. CASE Len(r.data) = 0
    <3>1. DOMAIN r.data = {}
      BY <1>2, <2>2
    <3>2. PICK iter : SumFunction(r.data) = iter[{}] /\ Sums(SUBSET {}, r.data, iter)
      BY <3>1, FS_EmptySet, SumSteps
    <3>3. iter[{}] = 0
      BY <3>2 DEF Sums
    <3>. QED BY <3>2, <3>3
  <2>3. CASE Len(r.data) # 0
    <3>1. 1 \in 1..Len(r.data)
      BY <1>2, <2>3
    <3>. QED BY <1>2, <2>1, <3>1, SumChanges
  <2>. QED BY <2>2, <2>3
<1>. QED BY <1>1, <1>2, <1>3, <1>4, <1>5

\* Every change of a byte changes the sum or the checksum it is compared with.
LEMMA CorruptedFound ==
  ASSUME NEW q \in Records, q.type \in {1, 9}, NEW r \in Corrupted(q),
         checksum_validation(validation_sum(q), q.checksum) = VALID_RECORD
  PROVE  /\ r \in Records /\ r.S = q.S /\ r.type = q.type
         /\ checksum_validation(validation_sum(r), r.checksum) = CHECKSUM_ERROR
<1>. DEFINE Data(p) == IF p.type = 1 THEN SumFunction(p.data) ELSE 0
            n == hex_pair_count(q)
            h == q.address[1]
            l == q.address[2]
            s == Data(q)
<1>1. /\ h \in Bytes /\ l \in Bytes /\ q.checksum \in Bytes /\ q.data \in Seq(Bytes)
      /\ n \in Nat /\ s \in Nat
      /\ \A i \in DOMAIN q.data : q.data[i] \in Bytes
  BY RecordParts
<1>2. h \in Nat /\ l \in Nat
  BY <1>1, ByteRange
<1>3. validation_sum(q) = n + h + l + s
  BY DEF validation_sum
<1>4. /\ q = [S |-> q.S, type |-> q.type, address |-> q.address, data |-> q.data,
              checksum |-> q.checksum]
      /\ q.address = <<h, l>> /\ q.S \in BOOLEAN /\ q.type \in 0..9
  BY DEF Records
<1>. HIDE DEF s
<1>5. CASE \E b \in Bytes : r = [q EXCEPT !.address[1] = b] /\ r # q
  <2>1. PICK b \in Bytes : r = [q EXCEPT !.address[1] = b] /\ r # q
    BY <1>5
  <2>2. r = [S |-> q.S, type |-> q.type, address |-> <<b, l>>, data |-> q.data,
             checksum |-> q.checksum]
    BY <1>4, <2>1
  <2>3. b # h
    BY <1>4, <2>1, <2>2
  <2>4. r \in Records
    BY <1>1, <1>4, <2>2 DEF Records
  <2>5. validation_sum(r) = n + b + l + s
    BY <2>2 DEF validation_sum, hex_pair_count, s
  <2>6. (n + l + s) \in Nat /\ n + b + l + s = (n + l + s) + b /\ n + h + l + s = (n + l + s) + h
    <3>1. b \in Nat /\ h \in Nat /\ l \in Nat /\ n \in Nat /\ s \in Nat
      BY <1>1, <1>2, ByteRange
    <3>. HIDE DEF n, h, l
    <3>. QED BY ONLY <3>1
  <2>7. checksum_validation(n + b + l + s, q.checksum) = CHECKSUM_ERROR
    BY <1>1, <1>3, <2>3, <2>6, ByteTold
  <2>. QED BY <2>2, <2>4, <2>5, <2>7
<1>6. CASE \E b \in Bytes : r = [q EXCEPT !.address[2] = b] /\ r # q
  <2>1. PICK b \in Bytes : r = [q EXCEPT !.address[2] = b] /\ r # q
    BY <1>6
  <2>2. r = [S |-> q.S, type |-> q.type, address |-> <<h, b>>, data |-> q.data,
             checksum |-> q.checksum]
    BY <1>4, <2>1
  <2>3. b # l
    BY <1>4, <2>1, <2>2
  <2>4. r \in Records
    BY <1>1, <1>4, <2>2 DEF Records
  <2>5. validation_sum(r) = n + h + b + s
    BY <2>2 DEF validation_sum, hex_pair_count, s
  <2>6. (n + h + s) \in Nat /\ n + h + b + s = (n + h + s) + b /\ n + h + l + s = (n + h + s) + l
    <3>1. b \in Nat /\ h \in Nat /\ l \in Nat /\ n \in Nat /\ s \in Nat
      BY <1>1, <1>2, ByteRange
    <3>. HIDE DEF n, h, l
    <3>. QED BY ONLY <3>1
  <2>7. checksum_validation(n + h + b + s, q.checksum) = CHECKSUM_ERROR
    BY <1>1, <1>3, <2>3, <2>6, ByteTold
  <2>. QED BY <2>2, <2>4, <2>5, <2>7
<1>7. CASE \E b \in Bytes : r = [q EXCEPT !.checksum = b] /\ r # q
  <2>1. PICK b \in Bytes : r = [q EXCEPT !.checksum = b] /\ r # q
    BY <1>7
  <2>2. r = [S |-> q.S, type |-> q.type, address |-> q.address, data |-> q.data, checksum |-> b]
    BY <1>4, <2>1
  <2>3. b # q.checksum
    BY <1>4, <2>1, <2>2
  <2>4. r \in Records
    BY <1>1, <1>4, <2>2 DEF Records
  <2>5. validation_sum(r) = validation_sum(q)
    BY <2>2 DEF validation_sum, hex_pair_count
  <2>6. checksum_validation(validation_sum(q), b) = CHECKSUM_ERROR
    BY <2>3, FlagsDiffer DEF checksum_validation
  <2>. QED BY <2>2, <2>4, <2>5, <2>6
<1>8. CASE q.type = 1 /\ \E i \in DOMAIN q.data, b \in Bytes : r = [q EXCEPT !.data[i] = b] /\ r # q
  <2>1. PICK i \in DOMAIN q.data, b \in Bytes : r = [q EXCEPT !.data[i] = b] /\ r # q
    BY <1>8
  <2>. DEFINE data == [q.data EXCEPT ![i] = b]
  <2>2. r = [S |-> q.S, type |-> q.type, address |-> q.address, data |-> data,
             checksum |-> q.checksum]
    BY <1>4, <2>1
  <2>3. PICK k \in Nat : DOMAIN q.data = 1..k
    BY RecordParts
  <2>4. /\ q.data \in [1..k -> Bytes] /\ data \in [1..k -> Bytes] /\ data[i] = b
        /\ \A j \in 1..k : j # i => q.data[j] = data[j]
        /\ i \in 1..k
    <3>1. q.data = [j \in 1..k |-> q.data[j]]
      BY <1>1, <2>3
    <3>. QED BY <1>1, <2>1, <2>3, <3>1
  <2>5. b # q.data[i]
    <3>1. b = q.data[i] => data = q.data
      BY <2>4
    <3>. HIDE DEF data
    <3>. QED BY <1>4, <2>1, <2>2, <3>1
  <2>. HIDE DEF data
  <2>6. data \in Seq(Bytes) /\ Len(data) = Len(q.data)
    BY <1>1, <2>3, <2>4
  <2>7. r \in Records
    BY <1>1, <1>4, <2>2, <2>6 DEF Records
  <2>8. q.data \in [1..k -> Nat] /\ data \in [1..k -> Nat]
    BY <2>4, ByteRange
  <2>. DEFINE others == SumFunction(q.data) - q.data[i]
  <2>9. /\ others \in Nat /\ SumFunction(data) \in Nat /\ SumFunction(q.data) \in Nat
        /\ others = SumFunction(data) - data[i]
    BY <2>3, <2>4, <2>8, SumChanges
  <2>10. s = SumFunction(q.data) /\ validation_sum(r) = n + h + l + SumFunction(data)
    BY <1>8, <2>2, <2>6 DEF validation_sum, hex_pair_count, s
  <2>11. q.data[i] \in Bytes /\ q.data[i] \in Nat /\ b \in Nat
    BY <1>1, <2>1, ByteRange
  <2>12. /\ n + h + l + others \in Nat
         /\ n + h + l + s = (n + h + l + others) + q.data[i]
         /\ n + h + l + SumFunction(data) = (n + h + l + others) + b
    <3>1. SumFunction(q.data) = others + q.data[i] /\ SumFunction(data) = others + b
      BY <2>4, <2>9, <2>11
    <3>2. /\ s = others + q.data[i] /\ others \in Nat /\ b \in Nat /\ q.data[i] \in Nat
          /\ n \in Nat /\ h \in Nat /\ l \in Nat
      BY <1>1, <1>2, <2>9, <2>10, <2>11, <3>1
    <3>. DEFINE x == q.data[i]
    <3>. HIDE DEF others, n, h, l, x
    <3>3. n + h + l + others \in Nat /\ n + h + l + (others + x) = (n + h + l + others) + x
      BY ONLY <3>2 DEF x
    <3>4. n + h + l + (others + b) = (n + h + l + others) + b
      BY ONLY <3>2
    <3>. QED BY <3>1, <3>2, <3>3, <3>4 DEF x
  <2>. HIDE DEF others
  <2>13. checksum_validation(n + h + l + SumFunction(data), q.checksum) = CHECKSUM_ERROR
    BY <1>3, <2>5, <2>11, <2>12, ByteTold
  <2>. QED BY <2>2, <2>7, <2>10, <2>13
<1>9. \/ \E b \in Bytes : r = [q EXCEPT !.address[1] = b] /\ r # q
      \/ \E b \in Bytes : r = [q EXCEPT !.address[2] = b] /\ r # q
      \/ \E b \in Bytes : r = [q EXCEPT !.checksum = b] /\ r # q
      \/ q.type = 1 /\ \E i \in DOMAIN q.data, b \in Bytes : r = [q EXCEPT !.data[i] = b] /\ r # q
  BY DEF Corrupted
<1>. QED BY <1>5, <1>6, <1>7, <1>8, <1>9

\* Files that agree are loaded alike, as far as they do.
LEMMA SamePrefix ==
  ASSUME NEW file, NEW other, NEW after, NEW also,
         Steps(file, after), Steps(other, also),
         Len(file) \in Nat, Len(other) \in Nat,
         NEW n \in Nat, n <= Len(file), n <= Len(other),
         \A i \in 1..n : file[i] = other[i]
  PROVE  \A i \in 0..n : after[i] = also[i]
<1>. DEFINE Bad == {i \in 0..n : after[i] # also[i]}
<1>1. ASSUME Bad # {} PROVE FALSE
  <2>1. Bad \subseteq Nat
    OBVIOUS
  <2>2. PICK k \in Bad : \A j \in Bad : k <= j
    BY <1>1, <2>1, LeastElement
  <2>3. k # 0
    BY <2>2 DEF Steps
  <2>4. k - 1 \in 0..n /\ k \in 1..n /\ ~(k <= k - 1)
    BY <2>2, <2>3
  <2>5. after[k - 1] = also[k - 1] /\ file[k] = other[k]
    BY <2>2, <2>4
  <2>6. k \in 1..Len(file) /\ k \in 1..Len(other)
    BY <2>4
  <2>7. after[k] = also[k]
    BY <2>5, <2>6 DEF Steps
  <2>. QED BY <2>2, <2>7
<1>. QED BY <1>1

\* What one record leaves, if it is one of code or of the start address.
LEMMA TakenResult ==
  ASSUME NEW loaded \in Loadeds, loaded.flag = VALID_RECORD,
         NEW r \in Records, r.S, r.type \in {1, 9}
  PROVE  LET taken == Taken(loaded, r)
         IN  /\ taken.flag = checksum_validation(validation_sum(r), r.checksum)
             /\ taken.PC \in {loaded.PC, loaded_address(r)}
<1>. DEFINE w == Written(loaded, r)
            f == checksum_validation(validation_sum(r), r.checksum)
<1>1. Taken(loaded, r) = [w EXCEPT !.flag = f]
  BY DEF Taken, s_record_decoder
<1>2. w \in Loadeds
  BY WrittenType
<1>3. w.PC \in {loaded.PC, loaded_address(r)}
  BY DEF Written, Loadeds
<1>. HIDE DEF w, f
<1>4. [w EXCEPT !.flag = f].flag = f /\ [w EXCEPT !.flag = f].PC = w.PC
  BY <1>2 DEF Loadeds
<1>. QED BY <1>1, <1>3, <1>4 DEF f

\* One changed byte in a record of code or of the start address stops the loading at
\* that record, in any file (Loader.cpp:100-170): nothing behind it is loaded, and
\* what it has written itself is all that differs from what was loaded before it.
THEOREM CorruptionFound == CorruptionRefused
<1>. SUFFICES ASSUME NEW file \in Whole, NEW k \in DOMAIN file, file[k].type \in {1, 9},
                     NEW r \in Corrupted(file[k])
              PROVE  LET loaded == loader(Blank, [file EXCEPT ![k] = r])
                         before == loader(Blank, SubSeq(file, 1, k - 1))
                     IN  /\ loaded.flag = CHECKSUM_ERROR
                         /\ loaded.PC \in {before.PC, loaded_address(r)}
                         /\ \A a \in Addresses : Says(r, a) = {} => loaded.byte[a] = before.byte[a]
  BY DEF CorruptionRefused
<1>. DEFINE n     == Len(file)
            other == [file EXCEPT ![k] = r]
            start == SubSeq(file, 1, k - 1)
<1>1. file \in Seq(Records) /\ loader(Blank, file).flag = VALID_RECORD
  BY LoaderAssumption DEF Whole
<1>2. n \in Nat /\ k \in 1..n /\ file[k] \in Records
  BY <1>1, ElementOfSeq
<1>3. PICK after : Steps(file, after)
  BY <1>1, BlankType, LoaderSteps DEF Steps
<1>4. /\ after[k - 1] \in Loadeds /\ after[k - 1].flag = VALID_RECORD
      /\ after[k].flag = VALID_RECORD /\ file[k].S
  <2>1. k - 1 \in 0..n /\ k \in 0..n
    BY <1>2
  <2>. QED BY <1>1, <1>2, <1>3, <2>1, StepsTyped, WholeValid
<1>5. checksum_validation(validation_sum(file[k]), file[k].checksum) = VALID_RECORD
  <2>1. after[k] = Taken(after[k - 1], file[k])
    BY <1>2, <1>3 DEF Steps
  <2>. QED BY <1>2, <1>4, <2>1, TakenResult
<1>6. /\ r \in Records /\ r.S /\ r.type \in {1, 9}
      /\ checksum_validation(validation_sum(r), r.checksum) = CHECKSUM_ERROR
  BY <1>2, <1>4, <1>5, CorruptedFound
<1>7. /\ other \in Seq(Records) /\ Len(other) = n /\ other[k] = r
      /\ \A i \in 1..(k - 1) : file[i] = other[i]
  BY <1>1, <1>2, <1>6
<1>8. /\ start \in Seq(Records) /\ Len(start) = k - 1
      /\ \A i \in 1..(k - 1) : file[i] = start[i]
  <2>1. \A i \in 1..(k - 1) : file[i] \in Records
    BY <1>1, <1>2, ElementOfSeq
  <2>2. k - 1 \in Int /\ k - 1 >= 0
    BY <1>2
  <2>. QED BY <1>1, <2>1, <2>2, SubSeqProperties
<1>. HIDE DEF other, start
<1>9. PICK also : Steps(other, also)
  BY <1>7, BlankType, LoaderSteps DEF Steps
<1>10. PICK early : Steps(start, early)
  BY <1>8, BlankType, LoaderSteps DEF Steps
<1>11. also[k - 1] = after[k - 1] /\ early[k - 1] = after[k - 1]
  <2>1. k - 1 \in Nat /\ k - 1 \in 0..(k - 1) /\ k - 1 <= n
    BY <1>2
  <2>. QED BY SMTT(30), <1>2, <1>3, <1>7, <1>8, <1>9, <1>10, <2>1, SamePrefix
<1>12. also[k] = Taken(after[k - 1], r)
  BY <1>2, <1>7, <1>9, <1>11 DEF Steps
<1>13. /\ also[k].flag = CHECKSUM_ERROR
       /\ also[k].PC \in {after[k - 1].PC, loaded_address(r)}
       /\ \A a \in Addresses : Says(r, a) = {} => also[k].byte[a] = after[k - 1].byte[a]
  BY <1>4, <1>6, <1>12, TakenResult, TakenSays
<1>14. loader(Blank, other) = also[k]
  <2>1. k \in 0..Len(other) /\ n \in k..Len(other) /\ also[k].flag # VALID_RECORD
    BY <1>2, <1>7, <1>13, FlagsDiffer
  <2>2. also[n] = also[k]
    BY <1>7, <1>9, <2>1, StopsAtError
  <2>. QED BY <1>7, <1>9, <2>2 DEF Steps
<1>15. loader(Blank, start) = after[k - 1]
  BY <1>8, <1>10, <1>11 DEF Steps
<1>. QED BY <1>13, <1>14, <1>15 DEF other, start
=============================================================================
