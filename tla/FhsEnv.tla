-------------------------------- MODULE FhsEnv --------------------------------
(***************************************************************************)
(* build-fhsenv merges /bin and /lib of a list of store paths into one     *)
(* output, the pins first: the first path that offers a name wins.         *)
(*                                                                         *)
(* A turn <<i, d>> is the visit to directory d of the i-th path of the     *)
(* queue.  Path.glob yields the entries of a directory in any order, each  *)
(* directory before what is in it.                                         *)
(***************************************************************************)
EXTENDS Integers, Sequences

CONSTANTS
    Paths,     \* store paths
    List,      \* the lines of the closure's store-paths file
    PinLists,  \* the lines the pins file may have
    Names,     \* paths relative to bin or lib
    Under,     \* the directory a name is in, or Top
    Top,
    Shapes     \* what a store path may have: the kind of every name

ASSUME ListAssumption  == List \in Seq(Paths) /\ PinLists \subseteq Seq(Paths)
ASSUME UnderAssumption == Top \notin Names /\ Under \in [Names -> Names \union {Top}]

Dirs == {"bin", "lib"}

\* File: a file, or a symlink to one in the store, whose content is copied;
\* Dir: a directory, or a symlink to one, which glob does not enter;
\* Away: a symlink out of the store; Broken: one to nothing in the store.
Kinds == {"None", "File", "Dir", "Away", "Broken"}
FileKinds == {"File", "Away", "Broken"}

ASSUME ShapesAssumption ==
    /\ Shapes \subseteq [Dirs -> [Names -> Kinds]]
    /\ \A s \in Shapes, d \in Dirs, n \in Names :
          s[d][n] # "None" /\ Under[n] # Top => s[d][Under[n]] = "Dir"

VARIABLES
    tree,      \* what each store path has
    pins,      \* the lines of the pins file
    turn,      \* the directory being merged
    todo,      \* the names glob has not yielded yet
    seen,      \* the turns at which a name came up as a file
    warned,    \* the names with a warning in the build log
    made,      \* the directories of the output
    copied,    \* its files, with the store path they are from
    status     \* "Running", "Finished" or "Failed"

merging == <<turn, todo, seen, warned, made, copied>>
vars == <<tree, pins, merging, status>>

Queue == pins \o List
Turns == (1..Len(Queue)) \X Dirs

Kind(t, n) == tree[Queue[t[1]]][t[2]][n]

\* mutant: the directory to read is not set again for lib
BinEntries(t) == {n \in Names : Kind(<<t[1], "bin">>, n) # "None"}

Entries(t) == {n \in Names : Kind(t, n) # "None"}

Init ==
    /\ tree \in [Paths -> Shapes]
    /\ pins \in PinLists
    /\ Queue # << >>
    /\ turn = <<1, "bin">>
    /\ todo = Entries(<<1, "bin">>)
    /\ seen = [n \in Names |-> {}]
    /\ warned = {}
    /\ made = {}
    /\ copied = {}
    /\ status = "Running"

\* mutant: everything of lib after everything of bin
LibLast ==
    IF turn[1] < Len(Queue) THEN <<turn[1] + 1, turn[2]>>
    ELSE <<IF turn[2] = "bin" THEN 1 ELSE turn[1] + 1, "lib">>

\* bin, then lib, then the next store path
NextTurn == IF turn[2] = "bin" THEN <<turn[1], "lib">> ELSE <<turn[1] + 1, "bin">>

HasNext == NextTurn \in Turns

NextDirectory ==
    /\ status = "Running"
    /\ todo = {}
    /\ HasNext
    /\ turn' = NextTurn
    /\ todo' = Entries(NextTurn)
    /\ UNCHANGED <<tree, pins, seen, warned, made, copied, status>>

Finish ==
    /\ status = "Running"
    /\ todo = {}
    /\ ~HasNext
    /\ status' = "Finished"
    /\ UNCHANGED <<tree, pins, merging>>

\* glob yields n, after the directory n is in.
Yields(n) ==
    /\ status = "Running"
    /\ n \in todo
    /\ Under[n] \notin todo
    /\ todo' = todo \ {n}
    /\ UNCHANGED <<tree, pins, turn>>

\* The build ends with an exception, what it did is discarded.
Abort ==
    /\ status' = "Failed"
    /\ UNCHANGED <<seen, warned, made, copied>>

Here(n) == <<turn[2], n>>

IsFile(n) == \E p \in Paths : <<turn[2], n, p>> \in copied

HasParent(n) == Under[n] # Top => <<turn[2], Under[n]>> \in made

\* out_path.mkdir(exist_ok=True), which takes no file and makes no parents
MakeDirectory(n) ==
    /\ Yields(n)
    /\ Kind(turn, n) = "Dir"
    /\ IF IsFile(n) \/ ~HasParent(n)
       THEN Abort
       ELSE made' = made \union {Here(n)} /\ UNCHANGED <<seen, warned, copied, status>>

\* mutant: a dictionary of its own for each of bin and lib
SeenHere(n) == {t \in seen[n] : t[2] = turn[2]} # {}

\* One dictionary for bin and lib: its key is the path relative to either.
Collides(n) == seen[n] # {}

\* mutant: silent whenever there are pins
AnyPins(ts) == pins # << >>

\* A pin is among the store paths seen with the name.
Pinned(ts) == \E t \in ts : \E k \in 1..Len(pins) : Queue[t[1]] = pins[k]

Collide(n) ==
    /\ Yields(n)
    /\ Kind(turn, n) \in FileKinds
    /\ Collides(n)
    /\ seen' = [seen EXCEPT ![n] = @ \union {turn}]
    /\ warned' = IF Pinned(seen[n] \union {turn}) THEN warned ELSE warned \union {n}
    /\ UNCHANGED <<made, copied, status>>

\* The first with its name: a symlink out of the store is ignored, but was seen.
Ignore(n) ==
    /\ Yields(n)
    /\ Kind(turn, n) = "Away"
    /\ ~Collides(n)
    /\ seen' = [seen EXCEPT ![n] = {turn}]
    /\ UNCHANGED <<warned, made, copied, status>>

\* mutant: no assertion that the path in the output is free
NoAssertion(n) == Kind(turn, n) = "File" /\ HasParent(n)

\* There is something to copy, nothing in its place, and a directory to copy it to.
MayCopy(n) == Kind(turn, n) = "File" /\ Here(n) \notin made /\ ~IsFile(n) /\ HasParent(n)

Copy(n) ==
    /\ Yields(n)
    /\ Kind(turn, n) \in {"File", "Broken"}
    /\ ~Collides(n)
    /\ IF MayCopy(n)
       THEN /\ copied' = copied \union {<<turn[2], n, Queue[turn[1]]>>}
            /\ seen' = [seen EXCEPT ![n] = {turn}]
            /\ UNCHANGED <<warned, made, status>>
       ELSE Abort

Next ==
    \/ NextDirectory
    \/ Finish
    \/ \E n \in Names : MakeDirectory(n) \/ Collide(n) \/ Ignore(n) \/ Copy(n)

\* Nobody waits for a build that is over.
Spec == Init /\ [][Next]_vars

-----------------------------------------------------------------------------
(* What the merge promises, said without its order of work.                *)

Before(t, u) == t[1] < u[1] \/ (t[1] = u[1] /\ t[2] = "bin" /\ u[2] = "lib")

Offers(t, n) == t \in Turns /\ Kind(t, n) \in FileKinds

Wins(t, n) == Offers(t, n) /\ \A u \in Turns : Offers(u, n) => ~Before(u, t)

MergedDirs == {e \in Dirs \X Names : \E i \in 1..Len(Queue) : Kind(<<i, e[1]>>, e[2]) = "Dir"}

MergedFiles ==
    {f \in Dirs \X Names \X Paths :
       \E i \in 1..Len(Queue) : /\ Queue[i] = f[3]
                                /\ Wins(<<i, f[1]>>, f[2])
                                /\ Kind(<<i, f[1]>>, f[2]) = "File"}

\* The file that wins is broken, or is in the place of a directory of any path.
Clash ==
    \E t \in Turns, n \in Names :
       /\ Wins(t, n)
       /\ \/ Kind(t, n) = "Broken"
          \/ Kind(t, n) = "File" /\ <<t[2], n>> \in MergedDirs

IsPin(p) == \E k \in 1..Len(pins) : pins[k] = p

(***************************************************************************)
(* State and type.                                                         *)
(***************************************************************************)
TypeOK ==
    /\ tree \in [Paths -> Shapes]
    /\ pins \in PinLists
    /\ turn \in Turns
    /\ todo \subseteq {n \in Names : Kind(turn, n) # "None"}
    /\ seen \in [Names -> SUBSET Turns]
    /\ warned \subseteq Names
    /\ made \subseteq Dirs \X Names
    /\ copied \subseteq Dirs \X Names \X Paths
    /\ status \in {"Running", "Finished", "Failed"}

(***************************************************************************)
(* The output is a function of the store paths and their order, whatever   *)
(* the order in which glob yields: all directories, and of each name the   *)
(* first file seen in bin or lib, which is lost when it leads away.        *)
(* fhsenv.py:57-96.                                                        *)
(***************************************************************************)
Merged == status = "Finished" => made = MergedDirs /\ copied = MergedFiles

(***************************************************************************)
(* The build fails exactly for the inputs where the file that wins cannot  *)
(* be there: neither mkdir without parents nor the assertion before the    *)
(* copy is ever met otherwise, and no such input gives an output.          *)
(* fhsenv.py:68, 95-96.                                                    *)
(***************************************************************************)
FailsOnClash == (status = "Failed" => Clash) /\ (status = "Finished" => ~Clash)

(***************************************************************************)
(* What a pin has is never taken from a path that is not pinned, not even  *)
(* when the pin's own file is in the other directory, or was ignored.      *)
(* fhsenv.nix:24: pins are there "so that they win" a collision.           *)
(***************************************************************************)
PinsWin ==
    \A c \in copied : ~IsPin(c[3]) =>
       \A p \in Paths, d \in Dirs : IsPin(p) => tree[p][d][c[2]] \notin FileKinds

(***************************************************************************)
(* A file of the inputs that is not in the output, and of whose name the   *)
(* pins have none, is reported in the build log; of bin and lib of one     *)
(* path as well.  fhsenv.py:75-80.                                         *)
(***************************************************************************)
LossesReported ==
    status = "Finished" =>
       \A t \in Turns, n \in Names :
          Kind(t, n) = "File" /\ <<t[2], n, Queue[t[1]]>> \notin copied =>
             n \in warned \/ \E p \in Paths, d \in Dirs : IsPin(p) /\ tree[p][d][n] \in FileKinds

=============================================================================
