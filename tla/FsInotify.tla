----------------------------- MODULE FsInotify -----------------------------
(***************************************************************************)
(* What inotify_dtree runs on: the directories of a filesystem, processes  *)
(* that create, remove and rename them, and the kernel's inotify instance. *)
(*                                                                         *)
(* A system call changes the tree first and raises its events afterwards,  *)
(* one by one; the events of different processes can mix.  An event is put *)
(* in the queue if its directory is watched at that moment.  The queue     *)
(* holds QMax events; one more becomes a single OVERFLOW.  An event equal  *)
(* to the last one in the queue is merged with it.                         *)
(*                                                                         *)
(* Only directories are modelled: inotify_dtree ignores the events of      *)
(* other files.                                                            *)
(***************************************************************************)
EXTENDS Naturals, Sequences, FiniteSets, FiniteSetsExt, Functions

CONSTANTS
    Dir,        \* the directories there ever are
    Root,       \* those named on the command line
    Trees,      \* where they may be at the start
    Name,       \* names of directories
    Proc,       \* the processes that change the tree
    QMax,       \* max_queued_events
    Top,        \* the directory that holds the roots
    Outside,    \* the place of a directory outside of the trees
    Free,       \* a directory that was not made yet; also: no directory
    Gone        \* a directory that was removed

ASSUME DirAssumption == /\ IsFiniteSet(Dir) /\ Root \subseteq Dir /\ Root # {}
                        /\ {Top, Outside, Free, Gone} \cap Dir = {}
                        /\ Cardinality({Top, Outside, Free, Gone}) = 4
ASSUME TreesAssumption ==
    /\ Trees \subseteq [Dir -> (Dir \X Name) \cup ({Top} \X Root) \cup {Outside, Free}]
    /\ \A t \in Trees : \A d \in Root : t[d] = <<Top, d>>
ASSUME QMaxAssumption == QMax \in Nat \ {0}

VARIABLES
    loc,       \* loc[d]: the directory d is in and its name there
    pend,      \* pend[p]: the events the last call of p has yet to raise
    ops,       \* how many changes there have been; the next cookie
    watch,     \* watch descriptor -> watched directory
    moveSelf,  \* the descriptors that ask for IN_MOVE_SELF
    queue,     \* the events that can be read
    nextWd     \* the next new descriptor

fs == <<loc, pend, ops>>
inotify == <<watch, moveSelf, queue, nextWd>>

-----------------------------------------------------------------------------
(* Sequences.  These four are those of SequencesExt, whose other           *)
(* definitions every proof obligation would carry along.                   *)

Last(s) == s[Len(s)]
IsPrefix(s, t) == Len(s) <= Len(t) /\ \A i \in DOMAIN s : s[i] = t[i]
SetToSeqs(S) == {f \in [1 .. Cardinality(S) -> S] : IsInjective(f)}
SetToSeq(S) == CHOOSE f \in SetToSeqs(S) : TRUE

-----------------------------------------------------------------------------
(* Pathnames.  A root is named by itself; a path starts at Top. *)

Linked(d) == loc[d] \notin {Outside, Free, Gone}
Exists(d) == loc[d] \notin {Free, Gone}

Children(d) == {e \in Dir : Linked(e) /\ loc[e][1] = d}

Child(d, n) ==
    LET S == {e \in Dir : loc[e] = <<d, n>>}
    IN  IF S = {} THEN Free ELSE CHOOSE e \in S : TRUE

(* The directory a path leads to now, or Free. *)
resolve(path) ==
    LET at[k \in 0 .. Len(path)] == IF k = 0 THEN Top ELSE Child(at[k - 1], path[k])
    IN  at[Len(path)]

(* d and everything above it. *)
Above(d) ==
    LET up[k \in 0 .. Cardinality(Dir)] ==
            IF k = 0 THEN {d}
            ELSE up[k - 1] \cup {loc[e][1] : e \in {x \in up[k - 1] \cap Dir : Linked(x)}}
    IN  up[Cardinality(Dir)]

-----------------------------------------------------------------------------
(* The calls of other processes. *)

Raise(p, stubs) ==
    /\ ops' = ops + 1
    /\ pend' = [pend EXCEPT ![p] = stubs]

(* The events of one rename() have its cookie. *)
Stub(d, kind, n) ==
    [dir |-> d, kind |-> kind, name |-> n,
     cookie |-> IF kind \in {"MOVED_FROM", "MOVED_TO"} THEN ops + 1 ELSE 0]

Mkdir(p, d, q, n) ==
    /\ loc[d] = Free /\ Exists(q) /\ Child(q, n) = Free
    /\ loc' = [loc EXCEPT ![d] = <<q, n>>]
    /\ Raise(p, <<Stub(q, "CREATE", n)>>)
    /\ UNCHANGED inotify

Rmdir(p, d) ==
    /\ Linked(d) /\ Children(d) = {}
    /\ loc' = [loc EXCEPT ![d] = Gone]
    /\ Raise(p, <<Stub(d, "DELETE_SELF", Free)>>)
    /\ UNCHANGED inotify

(* rename() to a new name, in the same directory or in another one, or     *)
(* from outside.                                                           *)
Rename(p, d, q, n) ==
    /\ d \notin Root /\ Exists(d) /\ Exists(q) /\ d \notin Above(q)
    /\ Child(q, n) = Free
    /\ loc' = [loc EXCEPT ![d] = <<q, n>>]
    /\ Raise(p, (IF Linked(d) THEN <<Stub(loc[d][1], "MOVED_FROM", loc[d][2])>> ELSE <<>>)
                \o <<Stub(q, "MOVED_TO", n)>>)
    /\ UNCHANGED inotify

(* rename() to a place that is not monitored. *)
MoveOut(p, d) ==
    /\ Linked(d)
    /\ loc' = [loc EXCEPT ![d] = Outside]
    /\ Raise(p, IF d \in Root THEN <<Stub(d, "MOVE_SELF", Free)>>
                ELSE <<Stub(loc[d][1], "MOVED_FROM", loc[d][2])>>)
    /\ UNCHANGED inotify

-----------------------------------------------------------------------------
(* The inotify instance. *)

Event(w, kind, n, c) == [wd |-> w, kind |-> kind, name |-> n, cookie |-> c]
OVERFLOW == Event(0, "OVERFLOW", Free, 0)

SameEvent(e, f) == e.wd = f.wd /\ e.kind = f.kind /\ e.name = f.name

Post(q, e) ==
    IF q # <<>> /\ SameEvent(Last(q), e) THEN q
    ELSE IF Len(q) < QMax THEN Append(q, e)
    ELSE IF Last(q) = OVERFLOW THEN q ELSE Append(q, OVERFLOW)

(* The events s one after the other, none of them equal to its neighbour. *)
PostAll(q, s) ==
    LET room == QMax - Len(q)
    IN  IF s = <<>> THEN q
        ELSE IF Len(s) <= room THEN q \o s
        ELSE IF room > 0 THEN Append(q \o SubSeq(s, 1, room), OVERFLOW)
        ELSE IF Last(q) = OVERFLOW THEN q ELSE Append(q, OVERFLOW)

WdOf(d) == {w \in DOMAIN watch : watch[w] = d}
Without(f, S) == [x \in DOMAIN f \ S |-> f[x]]

(* The next event of p's call reaches the directory it is about.  A        *)
(* removed directory loses its watch, which raises IN_IGNORED.             *)
Deliver(p) ==
    /\ pend[p] # <<>>
    /\ pend' = [pend EXCEPT ![p] = Tail(@)]
    /\ LET s == Head(pend[p])
           gone == s.kind = "DELETE_SELF"
           to == IF s.kind = "MOVE_SELF" THEN WdOf(s.dir) \cap moveSelf ELSE WdOf(s.dir)
       IN  IF to = {} THEN UNCHANGED <<watch, moveSelf, queue>>
           ELSE LET w == CHOOSE w \in to : TRUE
                    q == Post(queue, Event(w, s.kind, s.name, s.cookie))
                IN  /\ queue' = IF gone THEN Post(q, Event(w, "IGNORED", Free, 0)) ELSE q
                    /\ watch' = IF gone THEN Without(watch, to) ELSE watch
                    /\ moveSelf' = IF gone THEN moveSelf \ to ELSE moveSelf
    /\ UNCHANGED <<loc, ops, nextWd>>

(* inotify_add_watch() of directory d: the descriptor it returns, and the  *)
(* change it makes.  A directory has one watch; adding it again changes    *)
(* what is watched for.                                                    *)
wdFor(d) == IF WdOf(d) # {} THEN CHOOSE w \in WdOf(d) : TRUE ELSE nextWd

inotify_add_watch(d, self) ==
    /\ watch' = IF WdOf(d) # {} THEN watch
                ELSE [w \in DOMAIN watch \cup {nextWd} |-> IF w = nextWd THEN d ELSE watch[w]]
    /\ nextWd' = IF WdOf(d) # {} THEN nextWd ELSE nextWd + 1
    /\ moveSelf' = IF self THEN moveSelf \cup {wdFor(d)} ELSE moveSelf \ {wdFor(d)}
    /\ UNCHANGED queue

(* inotify_rm_watch() of the descriptors W; events already queued stay.    *)
(* IN_IGNORED is the last event of a descriptor, and it has had none yet.  *)
inotify_rm_watch(W) ==
    /\ watch' = Without(watch, W)
    /\ moveSelf' = moveSelf \ W
    /\ LET r == SetToSeq(W)
       IN  queue' = PostAll(queue, [i \in DOMAIN r |-> Event(r[i], "IGNORED", Free, 0)])
    /\ UNCHANGED nextWd

(* close() and inotify_init(). *)
inotify_init ==
    /\ watch' = <<>> /\ moveSelf' = {} /\ queue' = <<>> /\ nextWd' = 1

FsInit ==
    /\ loc \in Trees
    /\ pend = [p \in Proc |-> <<>>] /\ ops = 0
    /\ watch = <<>> /\ moveSelf = {} /\ queue = <<>> /\ nextWd = 1

FsStep(p) ==
    /\ pend[p] = <<>>
    /\ \/ \E d \in Dir : Rmdir(p, d) \/ MoveOut(p, d)
       \/ \E d, q \in Dir, n \in Name : Mkdir(p, d, q, n) \/ Rename(p, d, q, n)

=============================================================================
