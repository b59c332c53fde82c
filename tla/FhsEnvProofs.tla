----------------------------- MODULE FhsEnvProofs -----------------------------
(***************************************************************************)
(* The merge does what it promises, for all store paths and names.         *)
(***************************************************************************)
EXTENDS FhsEnv, TLAPS

\* glob has yielded n in turn t.
Done(t, n) == Before(t, turn) \/ (t = turn /\ n \notin todo)

\* seen, made and copied are those of the turns and names done.
SeenSoFar ==
    \A n \in Names, t \in Turns : t \in seen[n] <=> Kind(t, n) \in FileKinds /\ Done(t, n)

MadeSoFar ==
    \A n \in Names, e \in Dirs :
       <<e, n>> \in made <=>
          \E i \in 1..Len(Queue) : Kind(<<i, e>>, n) = "Dir" /\ Done(<<i, e>>, n)

CopiedSoFar ==
    \A n \in Names, t \in Turns :
       Wins(t, n) /\ Kind(t, n) = "File" /\ Done(t, n) => <<t[2], n, Queue[t[1]]>> \in copied

\* Nothing done so far was in the way of anything done so far.
NoClashSoFar ==
    \A n \in Names, t \in Turns :
       Wins(t, n) /\ Done(t, n) =>
          /\ Kind(t, n) # "Broken"
          /\ Kind(t, n) = "File" => <<t[2], n>> \notin made

\* A name seen twice was warned of, unless a pin has it.
WarnedSoFar ==
    \A n \in Names : \A t, u \in seen[n] : t # u => n \in warned \/ Pinned(seen[n])

Progress == SeenSoFar /\ MadeSoFar /\ CopiedSoFar /\ NoClashSoFar /\ WarnedSoFar

\* Whatever was copied won, in a failed build as well.
CopiedWon ==
    \A c \in copied : \E i \in 1..Len(Queue) :
       /\ Queue[i] = c[3]
       /\ Wins(<<i, c[1]>>, c[2])
       /\ Kind(<<i, c[1]>>, c[2]) = "File"
       /\ status # "Failed" => Done(<<i, c[1]>>, c[2])

IInv ==
    /\ TypeOK
    /\ status # "Failed" => Progress
    /\ CopiedWon
    /\ status = "Failed" => Clash
    /\ status = "Finished" => todo = {} /\ ~HasNext

-----------------------------------------------------------------------------
LEMMA Queues ==
    ASSUME pins \in PinLists
    PROVE  /\ Queue \in Seq(Paths)
           /\ Len(pins) \in Nat
           /\ Len(Queue) \in Nat
           /\ \A i \in 1..Len(Queue) : Queue[i] \in Paths
           /\ \A k \in 1..Len(pins) : k \in 1..Len(Queue) /\ Queue[k] = pins[k]
  <1>1. pins \in Seq(Paths) /\ List \in Seq(Paths)
    BY ListAssumption
  <1>2. Queue \in Seq(Paths) /\ Len(Queue) = Len(pins) + Len(List)
    BY <1>1 DEF Queue
  <1>3. \A k \in 1..Len(pins) : Queue[k] = pins[k]
    BY <1>1 DEF Queue
  <1> QED
    BY <1>1, <1>2, <1>3

\* The inputs are given.
LEMMA Given ==
    ASSUME UNCHANGED <<tree, pins>>
    PROVE  /\ Queue' = Queue
           /\ Turns' = Turns
           /\ \A t, n : Kind(t, n)' = Kind(t, n)
           /\ \A t, n : Wins(t, n)' <=> Wins(t, n)
           /\ \A ts : Pinned(ts)' <=> Pinned(ts)
           /\ Clash' <=> Clash
  <1>1. Queue' = Queue
    BY DEF Queue
  <1>2. Turns' = Turns
    BY <1>1 DEF Turns
  <1>3. \A t, n : Kind(t, n)' = Kind(t, n)
    BY <1>1 DEF Kind
  <1>4. \A t, n : Wins(t, n)' <=> Wins(t, n)
    BY <1>2, <1>3 DEF Wins, Offers
  <1>5. \A ts : Pinned(ts)' <=> Pinned(ts)
    BY <1>1 DEF Pinned
  <1>6. MergedDirs' = MergedDirs
    BY <1>1, <1>3 DEF MergedDirs
  <1>7. Clash' <=> Clash
    BY <1>2, <1>3, <1>4, <1>6 DEF Clash
  <1> QED
    BY <1>1, <1>2, <1>3, <1>4, <1>5, <1>7

\* Turns are in a line: the next one comes right after the present one.
LEMMA Line ==
    ASSUME pins \in PinLists, turn \in Turns
    PROVE  /\ \A t, u \in Turns : Before(t, u) \/ t = u \/ Before(u, t)
           /\ \A t, u \in Turns : ~(Before(t, u) /\ Before(u, t)) /\ ~Before(t, t)
           /\ \A t \in Turns : Before(t, NextTurn) <=> Before(t, turn) \/ t = turn
           /\ ~HasNext => \A t \in Turns : Before(t, turn) \/ t = turn
  <1>1. Len(Queue) \in Nat
    BY Queues
  <1>2. PICK i \in 1..Len(Queue), d \in Dirs : turn = <<i, d>>
    BY DEF Turns
  <1>3. \A t \in Turns : t[1] \in 1..Len(Queue) /\ t[2] \in Dirs /\ t = <<t[1], t[2]>>
    BY DEF Turns
  <1>4. \A t, u \in Turns : Before(t, u) \/ t = u \/ Before(u, t)
    BY <1>1, <1>3 DEF Dirs, Before
  <1>5. \A t, u \in Turns : ~(Before(t, u) /\ Before(u, t)) /\ ~Before(t, t)
    BY <1>1, <1>3 DEF Dirs, Before
  <1>6. \A t \in Turns : Before(t, NextTurn) <=> Before(t, turn) \/ t = turn
    BY <1>1, <1>2, <1>3 DEF Dirs, Before, NextTurn
  <1>7. ~HasNext => \A t \in Turns : Before(t, turn) \/ t = turn
    <2> SUFFICES ASSUME ~HasNext, NEW t \in Turns
                 PROVE  Before(t, turn) \/ t = turn
      OBVIOUS
    <2>1. turn[2] = "lib" /\ ~(i + 1 \in 1..Len(Queue))
      BY <1>1, <1>2 DEF HasNext, NextTurn, Turns, Dirs
    <2>2. i = Len(Queue)
      BY <1>1, <2>1
    <2> QED
      BY <1>1, <1>2, <1>3, <2>1, <2>2 DEF Before, Dirs
  <1> QED
    BY <1>4, <1>5, <1>6, <1>7

\* What a step that begins a directory, and one that yields a name, have done.
LEMMA Begun ==
    ASSUME TypeOK, NextDirectory
    PROVE  \A t \in Turns, n \in Names :
              Kind(t, n) # "None" => (Done(t, n)' <=> Done(t, n))
  BY Line, Given DEF Done, NextDirectory, Entries, TypeOK, Before, HasNext

LEMMA Yielded ==
    ASSUME TypeOK, NEW n \in Names, Yields(n)
    PROVE  \A t, m : Done(t, m)' <=> Done(t, m) \/ (t = turn /\ m = n)
  BY DEF Yields, Done, Before

-----------------------------------------------------------------------------
\* The begin of a directory changes what is done for no entry.
LEMMA BeginsKeep ==
    ASSUME IInv, NextDirectory
    PROVE  IInv'
  <1> status = "Running" /\ status' = "Running" /\ UNCHANGED <<tree, pins, seen, warned, made, copied>>
    BY DEF NextDirectory
  <1> USE DEF IInv, Progress
  <1>1. TypeOK'
    BY Given DEF TypeOK, NextDirectory, HasNext, Entries
  <1>2. SeenSoFar'
    BY Begun, Given DEF SeenSoFar, FileKinds
  <1>3. MadeSoFar'
    <2> SUFFICES ASSUME NEW n \in Names, NEW e \in Dirs
                 PROVE  (<<e, n>> \in made <=>
                           \E i \in 1..Len(Queue) : Kind(<<i, e>>, n) = "Dir" /\ Done(<<i, e>>, n)')
      BY Given DEF MadeSoFar
    <2>1. \A i \in 1..Len(Queue) : <<i, e>> \in Turns
      BY DEF Turns
    <2>2. \A i \in 1..Len(Queue) :
             Kind(<<i, e>>, n) = "Dir" => (Done(<<i, e>>, n)' <=> Done(<<i, e>>, n))
      BY <2>1, Begun
    <2> QED
      BY <2>2 DEF MadeSoFar
  <1>4. CopiedSoFar'
    BY Begun, Given DEF CopiedSoFar
  <1>5. NoClashSoFar'
    BY Begun, Given DEF NoClashSoFar, Wins, Offers, FileKinds
  <1>6. WarnedSoFar'
    BY Given DEF WarnedSoFar
  <1>7. CopiedWon'
    <2> SUFFICES ASSUME NEW c \in copied
                 PROVE  \E i \in 1..Len(Queue) :
                           /\ Queue[i] = c[3]
                           /\ Wins(<<i, c[1]>>, c[2])
                           /\ Kind(<<i, c[1]>>, c[2]) = "File"
                           /\ Done(<<i, c[1]>>, c[2])'
      BY Given DEF CopiedWon
    <2>1. PICK i \in 1..Len(Queue) : /\ Queue[i] = c[3]
                                    /\ Wins(<<i, c[1]>>, c[2])
                                    /\ Kind(<<i, c[1]>>, c[2]) = "File"
                                    /\ Done(<<i, c[1]>>, c[2])
      BY DEF CopiedWon
    <2>2. <<i, c[1]>> \in Turns /\ c[2] \in Names
      BY <2>1 DEF Wins, Offers, TypeOK
    <2> QED
      BY <2>1, <2>2, Begun
  <1> QED
    BY <1>1, <1>2, <1>3, <1>4, <1>5, <1>6, <1>7

-----------------------------------------------------------------------------
\* Glob yields n, and the merge has not come to a clash so far.
LEMMA Facts ==
    ASSUME IInv, NEW n \in Names, Yields(n)
    PROVE  /\ status = "Running" /\ status # "Failed"
           /\ turn' = turn /\ UNCHANGED <<tree, pins>>
           /\ turn \in Turns /\ turn = <<turn[1], turn[2]>>
           /\ turn[1] \in 1..Len(Queue) /\ turn[2] \in Dirs
           /\ pins \in PinLists
           /\ ~Done(turn, n)
           /\ \A t, m : Done(t, m)' <=> Done(t, m) \/ (t = turn /\ m = n)
           /\ HasParent(n)
  <1>1. /\ status = "Running" /\ turn' = turn /\ UNCHANGED <<tree, pins>>
        /\ pins \in PinLists /\ turn \in Turns /\ n \in todo
    BY DEF Yields, IInv, TypeOK
  <1>2. turn = <<turn[1], turn[2]>> /\ turn[1] \in 1..Len(Queue) /\ turn[2] \in Dirs
    BY <1>1 DEF Turns
  <1>3. ~Done(turn, n)
    BY <1>1, Line DEF Done
  <1>4. \A t, m : Done(t, m)' <=> Done(t, m) \/ (t = turn /\ m = n)
    BY Yielded DEF IInv
  <1>5. HasParent(n)
    <2> SUFFICES ASSUME Under[n] # Top
                 PROVE  <<turn[2], Under[n]>> \in made
      BY DEF HasParent
    <2>1. Under[n] \in Names
      BY UnderAssumption
    <2>2. PICK p \in Paths : p = Queue[turn[1]]
      BY <1>1, <1>2, Queues
    <2>3. tree[p] \in Shapes /\ tree[p][turn[2]][n] # "None"
      BY <1>1, <2>2 DEF IInv, TypeOK, Kind
    <2>4. Kind(turn, Under[n]) = "Dir"
      BY <1>2, <2>2, <2>3, ShapesAssumption DEF Kind
    <2>5. Done(turn, Under[n])
      BY DEF Yields, Done
    <2> QED
      BY <1>1, <1>2, <2>1, <2>4, <2>5 DEF IInv, Progress, MadeSoFar
  <1> QED
    BY <1>1, <1>2, <1>3, <1>4, <1>5

\* The first of its name is the one that wins, and there is no second.
LEMMA FirstWins ==
    ASSUME IInv, NEW n \in Names, Yields(n), Kind(turn, n) \in FileKinds
    PROVE  Wins(turn, n) <=> ~Collides(n)
  <1>1. SeenSoFar
    BY Facts DEF IInv, Progress
  <1>2. \A t \in Turns : Done(t, n) <=> Before(t, turn)
    BY Facts DEF Done, Yields
  <1>3. \A t \in seen[n] : t \in Turns
    BY DEF IInv, TypeOK
  <1> QED
    BY <1>1, <1>2, <1>3, Facts DEF SeenSoFar, Wins, Offers, Collides

LEMMA OneWins ==
    ASSUME pins \in PinLists, turn \in Turns, NEW n, NEW t, NEW u, Wins(t, n), Wins(u, n)
    PROVE  t = u
  BY Line DEF Wins, Offers

\* A file in the output is that of the turn that wins, which is done.
LEMMA FileWon ==
    ASSUME IInv, NEW n \in Names, status # "Failed", IsFile(n)
    PROVE  \E i \in 1..Len(Queue) : LET t == <<i, turn[2]>>
                                    IN  Wins(t, n) /\ Kind(t, n) = "File" /\ Done(t, n)
  <1>1. PICK p \in Paths : <<turn[2], n, p>> \in copied
    BY DEF IsFile
  <1> DEFINE c == <<turn[2], n, p>>
  <1>2. c[1] = turn[2] /\ c[2] = n
    OBVIOUS
  <1> QED
    BY <1>1, <1>2 DEF IInv, CopiedWon

\* Both operations that can fail do so for a reason.
LEMMA AbortKeeps ==
    ASSUME IInv, NEW n \in Names, Yields(n), Abort, Clash
    PROVE  IInv'
  <1>1. status' = "Failed" /\ UNCHANGED <<tree, pins, turn, seen, warned, made, copied>>
    BY Facts DEF Abort
  <1>2. Clash' /\ Queue' = Queue
    BY <1>1, Given
  <1>3. TypeOK'
    BY <1>1, Given DEF TypeOK, IInv, Yields
  <1>4. CopiedWon'
    BY <1>1, Given DEF IInv, CopiedWon
  <1> QED
    BY <1>1, <1>2, <1>3, <1>4 DEF IInv

LEMMA MakeFails ==
    ASSUME IInv, NEW n \in Names, MakeDirectory(n), Abort, IsFile(n) \/ ~HasParent(n)
    PROVE  Clash
  <1>1. Yields(n) /\ Kind(turn, n) = "Dir"
    BY DEF MakeDirectory
  <1>2. IsFile(n)
    BY <1>1, Facts
  <1>3. PICK i \in 1..Len(Queue) : Wins(<<i, turn[2]>>, n) /\ Kind(<<i, turn[2]>>, n) = "File"
    BY <1>1, <1>2, Facts, FileWon
  <1>4. <<turn[2], n>> \in MergedDirs
    BY <1>1, Facts DEF MergedDirs
  <1> QED
    BY <1>3, <1>4, Facts, <1>1 DEF Clash, Turns

LEMMA CopyFails ==
    ASSUME IInv, NEW n \in Names, Copy(n), ~MayCopy(n)
    PROVE  Clash
  <1>1. Yields(n) /\ Kind(turn, n) \in {"File", "Broken"} /\ ~Collides(n)
    BY DEF Copy
  <1>2. Wins(turn, n)
    BY <1>1, FirstWins DEF FileKinds
  <1>3. CASE Kind(turn, n) = "Broken"
    BY <1>1, <1>2, <1>3, Facts DEF Clash
  <1>4. CASE Kind(turn, n) = "File" /\ Here(n) \in made
    <2>1. <<turn[2], n>> \in MergedDirs
      BY <1>1, <1>4, Facts DEF IInv, Progress, MadeSoFar, Here, MergedDirs
    <2> QED
      BY <1>1, <1>2, <1>4, <2>1, Facts DEF Clash
  <1>5. CASE IsFile(n)
    <2>1. PICK i \in 1..Len(Queue) : Wins(<<i, turn[2]>>, n) /\ Done(<<i, turn[2]>>, n)
      BY <1>1, <1>5, Facts, FileWon
    <2>2. <<i, turn[2]>> = turn
      BY <1>1, <1>2, <2>1, Facts, OneWins
    <2> QED
      BY <1>1, <2>1, <2>2, Facts
  <1> QED
    BY <1>1, <1>3, <1>4, <1>5, Facts DEF MayCopy

-----------------------------------------------------------------------------
LEMMA CopiedKept ==
    ASSUME IInv, NEW n \in Names, Yields(n), UNCHANGED <<copied, status>>
    PROVE  CopiedWon'
  <1>1. UNCHANGED <<tree, pins>> /\ status # "Failed" /\ status' # "Failed"
    BY Facts
  <1> SUFFICES ASSUME NEW c \in copied
               PROVE  \E i \in 1..Len(Queue) :
                         /\ Queue[i] = c[3]
                         /\ Wins(<<i, c[1]>>, c[2])
                         /\ Kind(<<i, c[1]>>, c[2]) = "File"
                         /\ Done(<<i, c[1]>>, c[2])'
    BY <1>1, Given DEF CopiedWon
  <1>2. PICK i \in 1..Len(Queue) :
           /\ Queue[i] = c[3]
           /\ Wins(<<i, c[1]>>, c[2])
           /\ Kind(<<i, c[1]>>, c[2]) = "File"
           /\ Done(<<i, c[1]>>, c[2])
    BY <1>1 DEF IInv, CopiedWon
  <1>3. Done(<<i, c[1]>>, c[2])'
    BY <1>2, Facts
  <1> QED
    BY <1>2, <1>3

LEMMA MakeKeeps ==
    ASSUME IInv, NEW n \in Names, MakeDirectory(n)
    PROVE  IInv'
  <1>1. Yields(n) /\ Kind(turn, n) = "Dir"
    BY DEF MakeDirectory
  <1>2. CASE Abort /\ (IsFile(n) \/ ~HasParent(n))
    BY <1>1, <1>2, MakeFails, AbortKeeps
  <1>3. CASE /\ ~IsFile(n)
             /\ made' = made \union {<<turn[2], n>>}
             /\ UNCHANGED <<seen, warned, copied, status>>
    <2>1. UNCHANGED <<tree, pins>> /\ status' # "Failed"
      BY <1>1, <1>3, Facts
    <2>2. TypeOK'
      BY <1>1, <1>3, Facts, Given DEF TypeOK, IInv, Yields
    <2>3. SeenSoFar'
      BY <1>1, <1>3, <2>1, Facts, Given DEF IInv, Progress, SeenSoFar, FileKinds
    <2>4. MadeSoFar'
      <3> SUFFICES ASSUME NEW m \in Names, NEW e \in Dirs
                   PROVE  <<e, m>> \in made' <=>
                             \E i \in 1..Len(Queue) : Kind(<<i, e>>, m) = "Dir" /\ Done(<<i, e>>, m)'
        BY <2>1, Given DEF MadeSoFar
      <3>1. CASE e = turn[2] /\ m = n
        BY <1>1, <1>3, <3>1, Facts
      <3>2. CASE ~(e = turn[2] /\ m = n)
        <4>1. <<e, m>> \in made' <=> <<e, m>> \in made
          BY <1>3, <3>2
        <4>2. \A i \in 1..Len(Queue) : Done(<<i, e>>, m)' <=> Done(<<i, e>>, m)
          BY <1>1, <3>2, Facts
        <4> QED
          BY <1>1, <4>1, <4>2, Facts DEF IInv, Progress, MadeSoFar
      <3> QED
        BY <3>1, <3>2
    <2>5. CopiedSoFar'
      BY <1>1, <1>3, <2>1, Facts, Given DEF IInv, Progress, CopiedSoFar
    <2>6. NoClashSoFar'
      <3> SUFFICES ASSUME NEW m \in Names, NEW t \in Turns, Wins(t, m), Done(t, m)'
                   PROVE  /\ Kind(t, m) # "Broken"
                          /\ Kind(t, m) = "File" => <<t[2], m>> \notin made'
        BY <2>1, Given DEF NoClashSoFar
      <3>1. ~(t = turn /\ m = n)
        BY <1>1 DEF Wins, Offers, FileKinds
      <3>2. Done(t, m)
        BY <1>1, <3>1, Facts
      <3>3. ASSUME Kind(t, m) = "File", t[2] = turn[2], m = n
            PROVE  FALSE
        <4>1. <<turn[2], n, Queue[t[1]]>> \in copied
          BY <1>1, <3>2, <3>3, Facts DEF IInv, Progress, CopiedSoFar
        <4>2. Queue[t[1]] \in Paths
          BY <1>1, Facts, Queues DEF Turns
        <4> QED
          BY <1>3, <4>1, <4>2 DEF IsFile
      <3> QED
        BY <1>1, <1>3, <3>2, <3>3, Facts DEF IInv, Progress, NoClashSoFar
    <2>7. WarnedSoFar'
      BY <1>1, <1>3, <2>1, Facts, Given DEF IInv, Progress, WarnedSoFar
    <2>8. CopiedWon'
      BY <1>1, <1>3, CopiedKept
    <2> QED
      BY <1>1, <1>3, <2>2, <2>3, <2>4, <2>5, <2>6, <2>7, <2>8, Facts DEF IInv, Progress
  <1> QED
    BY <1>2, <1>3 DEF MakeDirectory, Here, Abort

\* A name that is not a directory leaves the directories, and adds its turn to seen.
LEMMA FileSeen ==
    ASSUME IInv, NEW n \in Names, Yields(n), Kind(turn, n) \in FileKinds,
           seen' = [seen EXCEPT ![n] = seen[n] \union {turn}], UNCHANGED <<made, status>>,
           warned' \subseteq Names, copied' \subseteq Dirs \X Names \X Paths
    PROVE  TypeOK' /\ SeenSoFar' /\ MadeSoFar'
  <1>1. UNCHANGED <<tree, pins>>
    BY Facts
  <1>2. TypeOK'
    BY <1>1, Facts, Given DEF TypeOK, IInv, Yields
  <1>3. SeenSoFar'
    <2> SUFFICES ASSUME NEW m \in Names, NEW t \in Turns
                 PROVE  t \in seen'[m] <=> Kind(t, m) \in FileKinds /\ Done(t, m)'
      BY <1>1, Given DEF SeenSoFar, FileKinds
    <2>1. t \in seen'[m] <=> t \in seen[m] \/ (t = turn /\ m = n)
      BY DEF IInv, TypeOK
    <2>2. t \in seen[m] <=> Kind(t, m) \in FileKinds /\ Done(t, m)
      BY Facts DEF IInv, Progress, SeenSoFar
    <2> QED
      BY <2>1, <2>2, Facts
  <1>4. MadeSoFar'
    <2> SUFFICES ASSUME NEW m \in Names, NEW e \in Dirs
                 PROVE  <<e, m>> \in made <=>
                           \E i \in 1..Len(Queue) : Kind(<<i, e>>, m) = "Dir" /\ Done(<<i, e>>, m)'
      BY <1>1, Given DEF MadeSoFar
    <2>1. \A i \in 1..Len(Queue) : Kind(<<i, e>>, m) = "Dir" =>
                (Done(<<i, e>>, m)' <=> Done(<<i, e>>, m))
      BY Facts DEF FileKinds
    <2> QED
      BY <2>1, Facts DEF IInv, Progress, MadeSoFar
  <1> QED
    BY <1>2, <1>3, <1>4

LEMMA CollideKeeps ==
    ASSUME IInv, NEW n \in Names, Collide(n)
    PROVE  IInv'
  <1>1. /\ Yields(n) /\ Kind(turn, n) \in FileKinds /\ Collides(n)
        /\ seen' = [seen EXCEPT ![n] = seen[n] \union {turn}]
        /\ warned' = IF Pinned(seen[n] \union {turn}) THEN warned ELSE warned \union {n}
        /\ UNCHANGED <<made, copied, status>>
    BY DEF Collide
  <1>2. UNCHANGED <<tree, pins>> /\ status' = "Running"
    BY <1>1, Facts
  <1>3. ~Wins(turn, n)
    BY <1>1, FirstWins
  <1>4. TypeOK' /\ SeenSoFar' /\ MadeSoFar'
    <2>1. warned' \subseteq Names /\ copied' \subseteq Dirs \X Names \X Paths
      BY <1>1 DEF IInv, TypeOK
    <2> QED
      BY <1>1, <2>1, FileSeen
  <1>5. CopiedSoFar'
    BY <1>1, <1>2, <1>3, Facts, Given DEF IInv, Progress, CopiedSoFar
  <1>6. NoClashSoFar'
    BY <1>1, <1>2, <1>3, Facts, Given DEF IInv, Progress, NoClashSoFar
  <1>7. WarnedSoFar'
    <2> SUFFICES ASSUME NEW m \in Names, NEW t \in seen'[m], NEW u \in seen'[m], t # u
                 PROVE  m \in warned' \/ Pinned(seen'[m])
      BY <1>2, Given DEF WarnedSoFar
    <2>1. CASE m = n
      <3>1. seen'[n] = seen[n] \union {turn}
        BY <1>1 DEF IInv, TypeOK
      <3> QED
        BY <1>1, <2>1, <3>1
    <2>2. CASE m # n
      <3>1. seen'[m] = seen[m]
        BY <1>1, <2>2 DEF IInv, TypeOK
      <3> QED
        BY <1>1, <3>1, Facts DEF IInv, Progress, WarnedSoFar
    <2> QED
      BY <2>1, <2>2
  <1>8. CopiedWon'
    BY <1>1, CopiedKept
  <1> QED
    BY <1>2, <1>4, <1>5, <1>6, <1>7, <1>8 DEF IInv, Progress

\* The first turn of a name is no second one.
LEMMA SeenOnce ==
    ASSUME IInv, NEW n \in Names, Yields(n), ~Collides(n),
           seen' = [seen EXCEPT ![n] = {turn}], UNCHANGED warned
    PROVE  /\ seen' = [seen EXCEPT ![n] = seen[n] \union {turn}]
           /\ WarnedSoFar'
  <1>1. seen[n] = {}
    BY DEF Collides
  <1>2. seen' = [seen EXCEPT ![n] = seen[n] \union {turn}]
    BY <1>1
  <1>3. WarnedSoFar'
    <2> SUFFICES ASSUME NEW m \in Names, NEW t \in seen'[m], NEW u \in seen'[m], t # u
                 PROVE  m \in warned \/ Pinned(seen'[m])
      BY Facts, Given DEF WarnedSoFar
    <2>1. m # n
      BY DEF IInv, TypeOK
    <2>2. seen'[m] = seen[m]
      BY <2>1 DEF IInv, TypeOK
    <2> QED
      BY <2>2, Facts DEF IInv, Progress, WarnedSoFar
  <1> QED
    BY <1>2, <1>3

LEMMA IgnoreKeeps ==
    ASSUME IInv, NEW n \in Names, Ignore(n)
    PROVE  IInv'
  <1>1. /\ Yields(n) /\ Kind(turn, n) = "Away" /\ ~Collides(n)
        /\ seen' = [seen EXCEPT ![n] = {turn}]
        /\ UNCHANGED <<warned, made, copied, status>>
    BY DEF Ignore
  <1>2. UNCHANGED <<tree, pins>> /\ status' = "Running"
    BY <1>1, Facts
  <1>3. seen' = [seen EXCEPT ![n] = seen[n] \union {turn}] /\ WarnedSoFar'
    BY <1>1, SeenOnce
  <1>4. TypeOK' /\ SeenSoFar' /\ MadeSoFar'
    <2>1. warned' \subseteq Names /\ copied' \subseteq Dirs \X Names \X Paths
      BY <1>1 DEF IInv, TypeOK
    <2> QED
      BY <1>1, <1>3, <2>1, FileSeen DEF FileKinds
  <1>5. CopiedSoFar'
    BY <1>1, <1>2, Facts, Given DEF IInv, Progress, CopiedSoFar
  <1>6. NoClashSoFar'
    BY <1>1, <1>2, Facts, Given DEF IInv, Progress, NoClashSoFar
  <1>7. CopiedWon'
    BY <1>1, CopiedKept
  <1> QED
    BY <1>2, <1>3, <1>4, <1>5, <1>6, <1>7 DEF IInv, Progress

LEMMA CopyKeeps ==
    ASSUME IInv, NEW n \in Names, Copy(n)
    PROVE  IInv'
  <1>1. Yields(n) /\ Kind(turn, n) \in {"File", "Broken"} /\ ~Collides(n)
    BY DEF Copy
  <1>2. CASE ~MayCopy(n)
    BY <1>1, <1>2, CopyFails, AbortKeeps DEF Copy
  <1>3. CASE MayCopy(n)
    <2> DEFINE new == <<turn[2], n, Queue[turn[1]]>>
    <2>1. /\ copied' = copied \union {new}
          /\ seen' = [seen EXCEPT ![n] = {turn}]
          /\ UNCHANGED <<warned, made, status>>
      BY <1>3 DEF Copy
    <2>2. UNCHANGED <<tree, pins>> /\ status = "Running" /\ status' = "Running"
      BY <1>1, <2>1, Facts
    <2>3. Kind(turn, n) = "File" /\ <<turn[2], n>> \notin made
      BY <1>3 DEF MayCopy, Here
    <2>4. Wins(turn, n)
      BY <1>1, <2>3, FirstWins DEF FileKinds
    <2>5. seen' = [seen EXCEPT ![n] = seen[n] \union {turn}] /\ WarnedSoFar'
      BY <1>1, <2>1, SeenOnce
    <2>6. TypeOK' /\ SeenSoFar' /\ MadeSoFar'
      <3>1. Queue[turn[1]] \in Paths /\ turn[2] \in Dirs
        BY <1>1, Facts, Queues
      <3>2. warned' \subseteq Names /\ copied' \subseteq Dirs \X Names \X Paths
        BY <2>1, <3>1 DEF IInv, TypeOK
      <3> QED
        BY <1>1, <2>1, <2>3, <2>5, <3>2, FileSeen DEF FileKinds
    <2>7. CopiedSoFar'
      BY <1>1, <2>1, <2>2, Facts, Given DEF IInv, Progress, CopiedSoFar
    <2>8. NoClashSoFar'
      BY <1>1, <2>1, <2>2, <2>3, Facts, Given DEF IInv, Progress, NoClashSoFar
    <2>9. CopiedWon'
      <3> SUFFICES ASSUME NEW c \in copied'
                   PROVE  \E i \in 1..Len(Queue) :
                             /\ Queue[i] = c[3]
                             /\ Wins(<<i, c[1]>>, c[2])
                             /\ Kind(<<i, c[1]>>, c[2]) = "File"
                             /\ Done(<<i, c[1]>>, c[2])'
        BY <2>2, Given DEF CopiedWon
      <3>1. CASE c \in copied
        <4>1. PICK i \in 1..Len(Queue) :
                 /\ Queue[i] = c[3]
                 /\ Wins(<<i, c[1]>>, c[2])
                 /\ Kind(<<i, c[1]>>, c[2]) = "File"
                 /\ Done(<<i, c[1]>>, c[2])
          BY <2>2, <3>1 DEF IInv, CopiedWon
        <4>2. Done(<<i, c[1]>>, c[2])'
          BY <1>1, <4>1, Facts
        <4> QED
          BY <4>1, <4>2
      <3>2. CASE c = new
        <4>1. PICK j \in 1..Len(Queue) : j = turn[1]
          BY <1>1, Facts
        <4>2. c[1] = turn[2] /\ c[2] = n /\ c[3] = Queue[j] /\ turn = <<j, c[1]>>
          BY <1>1, <3>2, <4>1, Facts
        <4>3. Wins(<<j, c[1]>>, c[2]) /\ Kind(<<j, c[1]>>, c[2]) = "File"
          BY <2>3, <2>4, <4>2
        <4>4. Done(<<j, c[1]>>, c[2])'
          BY <1>1, <4>2, Facts
        <4> QED
          BY <4>2, <4>3, <4>4
      <3> QED
        BY <2>1, <3>1, <3>2
    <2> QED
      BY <2>2, <2>5, <2>6, <2>7, <2>8, <2>9 DEF IInv, Progress
  <1> QED
    BY <1>2, <1>3

-----------------------------------------------------------------------------
LEMMA Still ==
    ASSUME Progress, UNCHANGED <<tree, pins, turn, todo, seen, warned, made, copied>>
    PROVE  Progress'
  <1>1. \A t, n : Done(t, n)' <=> Done(t, n)
    BY DEF Done
  <1>2. SeenSoFar'
    BY <1>1, Given DEF Progress, SeenSoFar
  <1>3. MadeSoFar'
    <2> SUFFICES ASSUME NEW m \in Names, NEW e \in Dirs
                 PROVE  <<e, m>> \in made <=>
                           \E i \in 1..Len(Queue) : Kind(<<i, e>>, m) = "Dir" /\ Done(<<i, e>>, m)'
      BY Given DEF MadeSoFar
    <2> QED
      BY <1>1 DEF Progress, MadeSoFar
  <1>4. CopiedSoFar'
    BY <1>1, Given DEF Progress, CopiedSoFar
  <1>5. NoClashSoFar'
    BY <1>1, Given DEF Progress, NoClashSoFar
  <1>6. WarnedSoFar'
    BY <1>1, Given DEF Progress, WarnedSoFar
  <1> QED
    BY <1>2, <1>3, <1>4, <1>5, <1>6 DEF Progress

LEMMA Inductive == Spec => []IInv
  <1>1. Init => IInv
    <2> SUFFICES ASSUME Init
                 PROVE  IInv
      OBVIOUS
    <2>1. turn \in Turns /\ TypeOK
      <3>1. 1 \in 1..Len(Queue)
        BY Queues DEF Init
      <3> QED
        BY <3>1 DEF Init, TypeOK, Turns, Dirs, Entries
    <2>2. \A t \in Turns, n \in Names : Kind(t, n) # "None" => ~Done(t, n)
      <3>1. \A t \in Turns : ~Before(t, <<1, "bin">>)
        BY DEF Turns, Before
      <3> QED
        BY <3>1 DEF Init, Done, Entries
    <2>3. Progress
      BY <2>2 DEF Init, Progress, SeenSoFar, MadeSoFar, CopiedSoFar, NoClashSoFar,
                  WarnedSoFar, Turns, FileKinds, Wins, Offers
    <2> QED
      BY <2>1, <2>3 DEF Init, IInv, CopiedWon
  <1>2. IInv /\ [Next]_vars => IInv'
    <2> SUFFICES ASSUME IInv, [Next]_vars
                 PROVE  IInv'
      OBVIOUS
    <2>1. CASE NextDirectory
      BY <2>1, BeginsKeep
    <2>2. CASE Finish
      <3>1. /\ status = "Running" /\ status' = "Finished" /\ todo' = {} /\ ~HasNext
            /\ UNCHANGED <<tree, pins, turn, todo, seen, warned, made, copied>>
        BY <2>2 DEF Finish, merging
      <3>2. ~HasNext'
        BY <3>1, Given DEF HasNext, NextTurn
      <3>3. \A t, n : Done(t, n)' <=> Done(t, n)
        BY <3>1 DEF Done
      <3>4. TypeOK'
        BY <3>1, Given DEF IInv, TypeOK
      <3>5. Progress'
        BY <3>1, Still DEF IInv
      <3>6. CopiedWon'
        BY <3>1, <3>3, Given DEF IInv, CopiedWon
      <3> QED
        BY <3>1, <3>2, <3>4, <3>5, <3>6 DEF IInv
    <2>3. ASSUME NEW n \in Names, MakeDirectory(n) \/ Collide(n) \/ Ignore(n) \/ Copy(n)
          PROVE  IInv'
      BY <2>3, MakeKeeps, CollideKeeps, IgnoreKeeps, CopyKeeps
    <2>4. CASE UNCHANGED vars
      <3>1. UNCHANGED <<tree, pins, turn, todo, seen, warned, made, copied, status>>
        BY <2>4 DEF vars, merging
      <3>2. \A t, n : Done(t, n)' <=> Done(t, n)
        BY <3>1 DEF Done
      <3>3. TypeOK'
        BY <3>1, Given DEF IInv, TypeOK
      <3>4. status # "Failed" => Progress'
        BY <3>1, Still DEF IInv
      <3>5. CopiedWon'
        BY <3>1, <3>2, Given DEF IInv, CopiedWon
      <3>6. status = "Failed" => Clash'
        BY <3>1, Given DEF IInv
      <3>7. HasNext' <=> HasNext
        BY <3>1, Given DEF HasNext, NextTurn
      <3> QED
        BY <3>1, <3>3, <3>4, <3>5, <3>6, <3>7 DEF IInv
    <2> QED
      BY <2>1, <2>2, <2>3, <2>4 DEF Next
  <1> QED
    BY <1>1, <1>2, PTL DEF Spec

\* When the build is finished, everything is done.
LEMMA AllDone ==
    ASSUME IInv, status = "Finished"
    PROVE  Progress /\ \A t \in Turns, n \in Names : Done(t, n)
  BY Line DEF IInv, TypeOK, Done

(***************************************************************************)
(* Type correctness, for all store paths, names and pins.                  *)
(***************************************************************************)
THEOREM TypeCorrect == Spec => []TypeOK
  BY Inductive, PTL DEF IInv

(***************************************************************************)
(* The output depends on the inputs only: fhsenv.py:57-96.                 *)
(***************************************************************************)
THEOREM MergeIsDetermined == Spec => []Merged
  <1>1. IInv => Merged
    <2> SUFFICES ASSUME IInv, status = "Finished"
                 PROVE  made = MergedDirs /\ copied = MergedFiles
      BY DEF Merged
    <2>1. Progress /\ \A t \in Turns, n \in Names : Done(t, n)
      BY AllDone
    <2>2. \A i \in 1..Len(Queue), e \in Dirs : <<i, e>> \in Turns
      BY DEF Turns
    <2>3. made = MergedDirs
      <3>1. made \subseteq Dirs \X Names
        BY DEF IInv, TypeOK
      <3>2. \A e \in Dirs, n \in Names : <<e, n>> \in made <=> <<e, n>> \in MergedDirs
        BY <2>1, <2>2 DEF Progress, MadeSoFar, MergedDirs
      <3> QED
        BY <3>1, <3>2 DEF MergedDirs
    <2>4. copied \subseteq MergedFiles
      <3> SUFFICES ASSUME NEW c \in copied
                   PROVE  c \in MergedFiles
        OBVIOUS
      <3>1. c \in Dirs \X Names \X Paths
        BY DEF IInv, TypeOK
      <3>2. PICK i \in 1..Len(Queue) : /\ Queue[i] = c[3]
                                      /\ Wins(<<i, c[1]>>, c[2])
                                      /\ Kind(<<i, c[1]>>, c[2]) = "File"
        BY DEF IInv, CopiedWon
      <3> QED
        BY <3>1, <3>2 DEF MergedFiles
    <2>5. MergedFiles \subseteq copied
      <3> SUFFICES ASSUME NEW c \in MergedFiles
                   PROVE  c \in copied
        OBVIOUS
      <3>1. c \in Dirs \X Names \X Paths /\ c = <<c[1], c[2], c[3]>>
        BY DEF MergedFiles
      <3>2. PICK i \in 1..Len(Queue) : /\ Queue[i] = c[3]
                                      /\ Wins(<<i, c[1]>>, c[2])
                                      /\ Kind(<<i, c[1]>>, c[2]) = "File"
        BY DEF MergedFiles
      <3> DEFINE t == <<i, c[1]>>
      <3>3. t \in Turns /\ t[1] = i /\ t[2] = c[1] /\ c[2] \in Names
        BY <2>2, <3>1
      <3>4. <<t[2], c[2], Queue[t[1]]>> \in copied
        BY <2>1, <3>2, <3>3 DEF Progress, CopiedSoFar
      <3> QED
        BY <3>1, <3>2, <3>3, <3>4
    <2> QED
      BY <2>3, <2>4, <2>5
  <1> QED
    BY <1>1, Inductive, PTL

(***************************************************************************)
(* The build fails exactly on a clash: fhsenv.py:68, 95-96.                *)
(***************************************************************************)
THEOREM FailureIsJustified == Spec => []FailsOnClash
  <1>1. IInv => FailsOnClash
    <2> SUFFICES ASSUME IInv, status = "Finished", Clash
                 PROVE  FALSE
      BY DEF IInv, FailsOnClash
    <2>1. Progress /\ \A t \in Turns, n \in Names : Done(t, n)
      BY AllDone
    <2>2. PICK t \in Turns, n \in Names :
             /\ Wins(t, n)
             /\ \/ Kind(t, n) = "Broken"
                \/ Kind(t, n) = "File" /\ <<t[2], n>> \in MergedDirs
      BY DEF Clash
    <2>3. Kind(t, n) = "File" /\ <<t[2], n>> \in MergedDirs /\ <<t[2], n>> \notin made
      BY <2>1, <2>2 DEF Progress, NoClashSoFar
    <2>4. PICK i \in 1..Len(Queue) : Kind(<<i, t[2]>>, n) = "Dir"
      BY <2>3 DEF MergedDirs
    <2>5. t[2] \in Dirs /\ <<i, t[2]>> \in Turns
      BY DEF Turns
    <2> QED
      BY <2>1, <2>3, <2>4, <2>5 DEF Progress, MadeSoFar
  <1> QED
    BY <1>1, Inductive, PTL

(***************************************************************************)
(* What a pin has comes from no other path: fhsenv.nix:22-25.              *)
(***************************************************************************)
THEOREM PinsOverride == Spec => []PinsWin
  <1>1. IInv => PinsWin
    <2> SUFFICES ASSUME IInv, NEW c \in copied, ~IsPin(c[3]), NEW p \in Paths, NEW d \in Dirs,
                        IsPin(p), tree[p][d][c[2]] \in FileKinds
                 PROVE  FALSE
      BY DEF PinsWin
    <2>1. pins \in PinLists
      BY DEF IInv, TypeOK
    <2>2. PICK i \in 1..Len(Queue) : Queue[i] = c[3] /\ Wins(<<i, c[1]>>, c[2])
      BY DEF IInv, CopiedWon
    <2>3. i > Len(pins)
      BY <2>1, <2>2, Queues DEF IsPin
    <2>4. PICK k \in 1..Len(pins) : pins[k] = p
      BY DEF IsPin
    <2>5. k \in 1..Len(Queue) /\ Queue[k] = p /\ k < i
      BY <2>1, <2>3, <2>4, Queues
    <2>6. Offers(<<k, d>>, c[2])
      BY <2>5 DEF Offers, Turns, Kind
    <2>7. Before(<<k, d>>, <<i, c[1]>>)
      BY <2>5 DEF Before
    <2> QED
      BY <2>2, <2>5, <2>6, <2>7 DEF Wins, Turns
  <1> QED
    BY <1>1, Inductive, PTL

(***************************************************************************)
(* No file is lost in silence but to a pin: fhsenv.py:75-80.               *)
(***************************************************************************)
THEOREM LossesAreReported == Spec => []LossesReported
  <1>1. IInv => LossesReported
    <2> SUFFICES ASSUME IInv, status = "Finished", NEW t \in Turns, NEW n \in Names,
                        Kind(t, n) = "File", <<t[2], n, Queue[t[1]]>> \notin copied
                 PROVE  n \in warned \/ \E p \in Paths, d \in Dirs :
                                           IsPin(p) /\ tree[p][d][n] \in FileKinds
      BY DEF LossesReported
    <2>1. Progress /\ \A u \in Turns, m \in Names : Done(u, m)
      BY AllDone
    <2>2. ~Wins(t, n)
      BY <2>1 DEF Progress, CopiedSoFar
    <2>3. PICK u \in Turns : Offers(u, n) /\ Before(u, t)
      BY <2>2 DEF Wins, Offers, FileKinds
    <2>4. u # t
      BY <2>3, Line DEF IInv, TypeOK
    <2>5. t \in seen[n] /\ u \in seen[n]
      BY <2>1, <2>3 DEF Progress, SeenSoFar, Offers, FileKinds
    <2>6. n \in warned \/ Pinned(seen[n])
      BY <2>1, <2>4, <2>5 DEF Progress, WarnedSoFar
    <2>7. ASSUME Pinned(seen[n])
          PROVE  \E p \in Paths, d \in Dirs : IsPin(p) /\ tree[p][d][n] \in FileKinds
      <3>1. PICK v \in seen[n], k \in 1..Len(pins) : Queue[v[1]] = pins[k]
        BY <2>7 DEF Pinned
      <3>2. v \in Turns
        BY <3>1 DEF IInv, TypeOK
      <3>3. Kind(v, n) \in FileKinds
        BY <2>1, <3>1, <3>2 DEF Progress, SeenSoFar
      <3>4. Queue[v[1]] \in Paths /\ v[2] \in Dirs
        BY <3>2, Queues DEF IInv, TypeOK, Turns
      <3> QED
        BY <3>1, <3>3, <3>4 DEF IsPin, Kind
    <2> QED
      BY <2>6, <2>7
  <1> QED
    BY <1>1, Inductive, PTL
(***************************************************************************)
(* That a build ends is liveness; that it cannot go on for ever is not:    *)
(* each step ends it, or begins a later turn, or takes names from what the *)
(* present turn has to do, and nothing of that is ever undone.             *)
(***************************************************************************)
Advances ==
    \/ status = "Running" /\ status' # "Running"
    \/ status' = status /\ Before(turn, turn')
    \/ status' = status /\ turn' = turn /\ todo' \subseteq todo /\ todo' # todo

(***************************************************************************)
(* Every step of the merge advances it, whatever glob yields and however   *)
(* names collide, and an ended build takes no step: fhsenv.py:57-96.       *)
(***************************************************************************)
THEOREM MergeAdvances == Spec => [][status = "Running" /\ Advances]_vars
  <1>1. IInv /\ [Next]_vars => [status = "Running" /\ Advances]_vars
    <2> SUFFICES ASSUME IInv, Next
                 PROVE  status = "Running" /\ Advances
      OBVIOUS
    <2>1. CASE NextDirectory
      <3>1. pins \in PinLists /\ turn \in Turns
        BY DEF IInv, TypeOK
      <3>2. NextTurn \in Turns /\ turn' = NextTurn /\ status = "Running" /\ status' = status
        BY <2>1 DEF NextDirectory, HasNext
      <3>3. Before(turn, NextTurn)
        BY <3>1, Line
      <3> QED
        BY <3>2, <3>3 DEF Advances
    <2>2. CASE Finish
      BY <2>2 DEF Finish, Advances
    <2>3. ASSUME NEW n \in Names, MakeDirectory(n) \/ Collide(n) \/ Ignore(n) \/ Copy(n)
          PROVE  status = "Running" /\ Advances
      <3>1. Yields(n) /\ status' \in {status, "Failed"}
        BY <2>3 DEF MakeDirectory, Collide, Ignore, Copy, Abort
      <3> QED
        BY <3>1 DEF Yields, Advances
    <2> QED
      BY <2>1, <2>2, <2>3 DEF Next
  <1>2. []IInv /\ [][Next]_vars => [][status = "Running" /\ Advances]_vars
    BY <1>1, PTL
  <1> QED
    BY <1>2, Inductive, PTL DEF Spec

=============================================================================
