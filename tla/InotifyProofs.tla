--------------------------- MODULE InotifyProofs ---------------------------
(***************************************************************************)
(* Proof that inotify_dtree loses no watch, for every tree, any processes  *)
(* and commands, any length of queue and buffer.                           *)
(*                                                                         *)
(* The one step that empties a slot of the cache without removing a watch  *)
(* is that of DELETE_SELF.  It is right because the kernel has removed the *)
(* watch before the event could be read, and the descriptor is not given   *)
(* to another directory while the event is in the queue or in the buffer.  *)
(***************************************************************************)
EXTENDS InotifyDtree, SequenceTheorems, FiniteSetTheorems, TLAPS

Place == (Dir \X Name) \cup ({Top} \X Root) \cup {Outside, Free, Gone}
Label == Name \cup Root \cup {Free}
Kind == {"CREATE", "DELETE_SELF", "MOVED_FROM", "MOVED_TO", "MOVE_SELF", "IGNORED", "OVERFLOW"}
Plain(e) == e.kind = "DELETE_SELF" => e.name = Free /\ e.cookie = 0
StubSet == {s \in [dir : Dir \cup {Top}, kind : Kind, name : Label, cookie : Nat] : Plain(s)}
Entry == [wd : Nat, kind : Kind, name : Label, cookie : Nat]

FsTyped == loc \in [Dir -> Place] /\ pend \in [Proc -> Seq(StubSet)] /\ ops \in Nat

WatchTyped == nextWd \in Nat \ {0} /\ DOMAIN watch \subseteq 1 .. nextWd - 1

(* Events that may be in flight: a DELETE_SELF has a descriptor that was   *)
(* used, and is not in use.                                                *)
Sound == {e \in Entry : /\ e.kind = "DELETE_SELF" => e.wd \in (1 .. nextWd - 1) \ DOMAIN watch
                        /\ Plain(e)}

InFlightSound == queue \in Seq(Sound) /\ buf \in Seq(Sound)

BufferInUse == /\ pc \in {"process", "reread"} => buf # <<>>
               /\ pc \in {"read", "select"} => buf = <<>>

IInv == FsTyped /\ WatchTyped /\ InFlightSound /\ BufferInUse /\ WatchesCached

-----------------------------------------------------------------------------
(* What Post() makes of a queue is made of its events, the new one and the *)
(* OVERFLOW.                                                               *)
LEMMA PostType ==
  ASSUME NEW S, NEW q \in Seq(S), NEW e \in S, OVERFLOW \in S
  PROVE  Post(q, e) \in Seq(S)
  BY DEF Post

(* The same for several events. *)
LEMMA PostAllType ==
  ASSUME NEW S, NEW q \in Seq(S), NEW s \in Seq(S), OVERFLOW \in S
  PROVE  PostAll(q, s) \in Seq(S)
<1>1. \A k \in Int : k <= Len(s) => SubSeq(s, 1, k) \in Seq(S)
  <2> SUFFICES ASSUME NEW k \in Int, k <= Len(s) PROVE SubSeq(s, 1, k) \in Seq(S)
    BY Zenon
  <2>1. \A i \in 1 .. k : s[i] \in S
    BY ElementOfSeq
  <2> QED BY <2>1, SubSeqProperties
<1>2. Len(s) > QMax - Len(q) => SubSeq(s, 1, QMax - Len(q)) \in Seq(S)
  BY <1>1, QMaxAssumption
<1> QED BY <1>2, QMaxAssumption DEF PostAll

(* SetToSeq() of a finite set is a sequence of its elements. *)
LEMMA SetToSeqType ==
  ASSUME NEW W, IsFiniteSet(W)
  PROVE  SetToSeq(W) \in [1 .. Cardinality(W) -> W] /\ Cardinality(W) \in Nat
<1>1. Cardinality(W) \in Nat /\ ExistsBijection(1 .. Cardinality(W), W)
  BY FS_CardinalityType, Zenon
<1>2. \E f \in [1 .. Cardinality(W) -> W] : IsInjective(f)
  BY <1>1, Zenon DEF ExistsBijection, Bijection, Injection, IsInjective
<1> QED BY <1>1, <1>2, Zenon DEF SetToSeq, SetToSeqs

(* OVERFLOW is an event, and not a DELETE_SELF. *)
LEMMA OverflowSound == OVERFLOW \in Sound
<1>1. OVERFLOW \in Entry
  BY Zenon DEF OVERFLOW, Event, Entry, Label, Kind
<1>2. OVERFLOW.kind # "DELETE_SELF"
  BY Zenon DEF OVERFLOW, Event
<1> QED BY <1>1, <1>2 DEF Sound, Plain

(* Events stay sound while watches go, and while new ones get new numbers. *)
LEMMA SoundKept ==
  ASSUME IInv, nextWd' \in Nat, nextWd' >= nextWd,
         DOMAIN watch' \subseteq DOMAIN watch \cup {nextWd}
  PROVE  Sound \subseteq Sound' /\ \A q \in Seq(Sound) : q \in Seq(Sound')
<1>1. Sound \subseteq Sound'
  BY DEF Sound, IInv, WatchTyped
<1> QED BY <1>1, SeqMonotonic, Zenon

(* A sequence of more than one event has a tail that is not empty. *)
LEMMA TailOfTwo ==
  ASSUME NEW S, NEW q \in Seq(S), Len(q) > 1
  PROVE  Tail(q) \in Seq(S) /\ Tail(q) # <<>>
<1>1. Tail(q) \in Seq(S) /\ Len(Tail(q)) = Len(q) - 1
  BY HeadTailProperties, EmptySeq
<1>2. Len(Tail(q)) # 0
  BY <1>1
<1> QED BY <1>1, <1>2, EmptySeq, Zenon

-----------------------------------------------------------------------------
(* Initially nothing is watched and nothing in flight. *)
LEMMA InitIInv == Init => IInv
<1> SUFFICES ASSUME Init PROVE IInv BY Zenon
<1>1. FsTyped
  BY TreesAssumption DEF Init, FsInit, FsTyped, Place
<1>2. WatchTyped /\ InFlightSound /\ BufferInUse /\ WatchesCached
  BY DEF Init, FsInit, WatchTyped, InFlightSound, BufferInUse, WatchesCached
<1> QED BY <1>1, <1>2 DEF IInv

(* What comes next is never the processing of an empty buffer. *)
LEMMA ContinueInUse == Continue => BufferInUse'
  BY Zenon DEF Continue, BufferInUse

(* A new instance has no watches and no events; the rest of the buffer is  *)
(* dropped.                                                                *)
LEMMA ReinitKeeps ==
  ASSUME IInv, UNCHANGED fs, NEW roots, reinitialize(roots), Continue
  PROVE  IInv'
<1>1. WatchTyped' /\ WatchesCached'
  BY DEF reinitialize, inotify_init, WatchTyped, WatchesCached
<1>2. InFlightSound'
  BY DEF reinitialize, inotify_init, InFlightSound
<1>3. FsTyped'
  BY Zenon DEF IInv, FsTyped, fs
<1> QED BY <1>1, <1>2, <1>3, ContinueInUse DEF IInv

(* Watches are removed together with their cache entries. *)
LEMMA ZapKeeps ==
  ASSUME IInv, UNCHANGED fs, NEW W \in SUBSET DOMAIN watch,
         inotify_rm_watch(W), markCacheSlotEmpty(W),
         buf' = buf \/ (buf # <<>> /\ buf' = Tail(buf)), Continue
  PROVE  IInv'
<1>1. WatchTyped' /\ WatchesCached'
  BY Zenon DEF IInv, WatchTyped, WatchesCached, inotify_rm_watch, markCacheSlotEmpty, Without
<1>2. /\ Sound \subseteq Sound'
      /\ \A q \in Seq(Sound) : q \in Seq(Sound')
  <2>1. nextWd' = nextWd /\ DOMAIN watch' \subseteq DOMAIN watch
    BY Zenon DEF inotify_rm_watch, Without
  <2> QED BY <2>1, SoundKept DEF IInv, WatchTyped
<1>3. buf' \in Seq(Sound')
  BY <1>2, HeadTailProperties, SMTT(30) DEF IInv, InFlightSound
<1>4. queue' \in Seq(Sound')
  <2> DEFINE r == SetToSeq(W)
             s == [i \in DOMAIN r |-> Event(r[i], "IGNORED", Free, 0)]
  <2>1. IsFiniteSet(W)
    <3>1. W \in SUBSET (1 .. nextWd - 1) /\ nextWd - 1 \in Int
      BY DEF IInv, WatchTyped
    <3>2. IsFiniteSet(1 .. nextWd - 1)
      BY <3>1, FS_Interval
    <3> QED BY <3>1, <3>2, FS_Subset
  <2>2. r \in [1 .. Cardinality(W) -> W] /\ Cardinality(W) \in Nat
    BY <2>1, SetToSeqType, Zenon
  <2>3. ASSUME NEW i \in DOMAIN r PROVE s[i] \in Sound
    <3>1. r[i] \in Nat
      BY <2>2 DEF IInv, WatchTyped
    <3>2. s[i] = Event(r[i], "IGNORED", Free, 0)
      BY Zenon
    <3>3. s[i] \in Entry
      BY <3>1, <3>2, Zenon DEF Event, Entry, Label, Kind
    <3>4. s[i].kind # "DELETE_SELF"
      BY <3>2, Zenon DEF Event
    <3> QED BY <3>3, <3>4, Zenon DEF Sound, Plain
  <2>4. s \in [1 .. Cardinality(W) -> Sound]
    BY <2>2, <2>3, Zenon
  <2>5. s \in Seq(Sound)
    BY <2>2, <2>4, SeqDef
  <2>6. queue' = PostAll(queue, s)
    BY Zenon DEF inotify_rm_watch
  <2>7. PostAll(queue, s) \in Seq(Sound)
    BY <2>5, PostAllType, OverflowSound DEF IInv, InFlightSound
  <2> QED BY <1>2, <2>6, <2>7
<1>5. FsTyped'
  BY Zenon DEF IInv, FsTyped, fs
<1> QED BY <1>1, <1>3, <1>4, <1>5, ContinueInUse DEF IInv, InFlightSound

(* A step that leaves the watches, the cache and the queue alone, and      *)
(* takes events from the front of the buffer.                              *)
LEMMA QuietKeeps ==
  ASSUME IInv, UNCHANGED <<fs, watch, nextWd, queue>>, DOMAIN cache' = DOMAIN cache,
         buf' \in Seq(Sound), BufferInUse'
  PROVE  IInv'
<1>1. Sound' = Sound
  BY Zenon DEF Sound
<1>2. InFlightSound'
  BY <1>1, Zenon DEF IInv, InFlightSound
<1>3. FsTyped'
  BY Zenon DEF IInv, FsTyped, fs
<1>4. WatchTyped' /\ WatchesCached'
  BY Zenon DEF IInv, WatchTyped, WatchesCached
<1> QED BY <1>2, <1>3, <1>4 DEF IInv

(* The walk of nftw(): traverseTree() adds a watch and its cache entry. *)
LEMMA WalkKeeps ==
  ASSUME IInv, \/ VisitNothing \/ VisitStat \/ VisitOpen \/ VisitAbort
               \/ traverseTreeFails \/ traverseTree \/ VisitList
  PROVE  IInv'
<1>1. CASE VisitNothing
  <2>1. UNCHANGED <<fs, watch, nextWd, queue, cache, buf>>
    BY <1>1, Zenon DEF VisitNothing, inotify
  <2>2. BufferInUse'
    BY <1>1, ContinueInUse DEF VisitNothing, BufferInUse
  <2> QED BY <2>1, <2>2, QuietKeeps DEF IInv, InFlightSound
<1>2. CASE VisitStat \/ VisitOpen \/ traverseTreeFails
  <2>1. UNCHANGED <<fs, watch, nextWd, queue, cache, buf>>
    BY <1>2, Zenon DEF VisitStat, VisitOpen, traverseTreeFails, inotify
  <2>2. BufferInUse'
    BY <1>2 DEF VisitStat, VisitOpen, traverseTreeFails, BufferInUse
  <2> QED BY <2>1, <2>2, QuietKeeps, Zenon DEF IInv, InFlightSound
<1>3. CASE VisitAbort \/ VisitList
  <2>1. UNCHANGED <<fs, watch, nextWd, queue, cache, buf>>
    BY <1>3, Zenon DEF VisitAbort, VisitList, inotify
  <2>2. BufferInUse'
    BY <1>3, ContinueInUse DEF VisitAbort, VisitList
  <2> QED BY <2>1, <2>2, QuietKeeps, Zenon DEF IInv, InFlightSound
<1>4. CASE traverseTree
  <2> DEFINE d == resolve(cur.path)
  <2>1. /\ inotify_add_watch(d, isRootDirPath(cur.path))
        /\ IF findWatch(wdFor(d)) THEN UNCHANGED cache ELSE addWatchToCache(wdFor(d), cur.path)
        /\ UNCHANGED <<fs, buf>> /\ pc' = "list"
    BY <1>4, Zenon DEF traverseTree
  <2>2. WatchTyped' /\ nextWd' \in Nat /\ nextWd' >= nextWd
        /\ DOMAIN watch' \subseteq DOMAIN watch \cup {nextWd}
    BY <2>1 DEF inotify_add_watch, IInv, WatchTyped
  <2>3. queue' \in Seq(Sound') /\ buf' \in Seq(Sound')
    BY <2>1, <2>2, SoundKept DEF IInv, InFlightSound, inotify_add_watch
  <2>4. DOMAIN cache' = DOMAIN cache \cup {wdFor(d)}
    BY <2>1, Zenon DEF findWatch, addWatchToCache
  <2>5. WatchesCached'
    <3>1. CASE WdOf(d) = {}
      BY <2>1, <2>4, <3>1 DEF inotify_add_watch, wdFor, IInv, WatchesCached
    <3>2. CASE WdOf(d) # {}
      BY <2>1, <2>4, <3>2 DEF inotify_add_watch, IInv, WatchesCached
    <3> QED BY <3>1, <3>2, Zenon
  <2>6. FsTyped' /\ BufferInUse'
    BY <2>1, Zenon DEF IInv, FsTyped, fs, BufferInUse
  <2> QED BY <2>2, <2>3, <2>5, <2>6 DEF IInv, InFlightSound
<1> QED BY <1>1, <1>2, <1>3, <1>4

(* The events read so far are processed; the slot of a DELETE_SELF is one  *)
(* whose watch is gone.                                                    *)
LEMMA ProcessKeeps ==
  ASSUME IInv, \/ processIgnored \/ processCreate \/ processDeleteSelf
               \/ processRename \/ processHanging \/ exitNoRoots
  PROVE  IInv'
<1>1. CASE processIgnored \/ processCreate
  <2>1. UNCHANGED <<fs, watch, nextWd, queue, cache>> /\ buf' = Tail(buf) /\ Continue
    BY <1>1, Zenon DEF processIgnored, processCreate, inotify
  <2>2. buf # <<>>
    BY <1>1 DEF processIgnored, processCreate, Processing, IInv, BufferInUse
  <2>3. buf' \in Seq(Sound)
    BY <2>1, <2>2, HeadTailProperties DEF IInv, InFlightSound
  <2> QED BY <2>1, <2>3, QuietKeeps, ContinueInUse
<1>2. CASE processDeleteSelf
  <2>1. /\ UNCHANGED <<fs, watch, nextWd, queue>> /\ buf' = Tail(buf) /\ Continue
        /\ cache' = Without(cache, {ev.wd}) /\ ev.kind = "DELETE_SELF" /\ pc = "process"
    BY <1>2, Zenon DEF processDeleteSelf, markCacheSlotEmpty, Processing, inotify
  <2>2. buf # <<>>
    BY <2>1, Zenon DEF IInv, BufferInUse
  <2>3. ev \in Sound /\ buf' \in Seq(Sound)
    BY <2>1, <2>2, HeadTailProperties DEF IInv, InFlightSound, ev
  <2>4. ev.wd \notin DOMAIN watch
    BY <2>1, <2>3, Zenon DEF Sound
  <2>5. WatchesCached'
    BY <2>1, <2>4 DEF IInv, WatchesCached, Without
  <2>6. Sound' = Sound
    BY <2>1, Zenon DEF Sound
  <2>7. InFlightSound' /\ WatchTyped'
    BY <2>1, <2>3, <2>6 DEF IInv, InFlightSound, WatchTyped
  <2>8. FsTyped'
    BY <2>1, Zenon DEF IInv, FsTyped, fs
  <2> QED BY <2>1, <2>5, <2>7, <2>8, ContinueInUse DEF IInv
<1>3. CASE processRename
  <2>1. /\ UNCHANGED <<fs, watch, nextWd, queue>> /\ DOMAIN cache' = DOMAIN cache
        /\ buf' = Tail(Tail(buf)) /\ Len(buf) > 1 /\ Continue
    BY <1>3, Zenon DEF processRename, rewriteCachedPaths, Paired, inotify
  <2>2. buf \in Seq(Sound)
    BY Zenon DEF IInv, InFlightSound
  <2>3. Tail(buf) \in Seq(Sound) /\ Tail(buf) # <<>>
    BY <2>1, <2>2, TailOfTwo
  <2>4. Tail(Tail(buf)) \in Seq(Sound)
    BY <2>3, HeadTailProperties
  <2> QED BY <2>1, <2>4, QuietKeeps, ContinueInUse
<1>4. CASE processHanging \/ exitNoRoots
  <2>1. UNCHANGED <<fs, watch, nextWd, queue, cache, buf>>
    BY <1>4, Zenon DEF processHanging, exitNoRoots, inotify
  <2>2. BufferInUse'
    BY <1>4, <2>1 DEF processHanging, exitNoRoots, RootGone, Processing, BufferInUse, IInv
  <2> QED BY <2>1, <2>2, QuietKeeps DEF IInv, InFlightSound
<1> QED BY <1>1, <1>2, <1>3, <1>4

(* Events the cache does not agree with: a rebuild. *)
LEMMA RebuildKeeps ==
  ASSUME IInv, \/ processStale \/ processOverflow \/ processRenameStale
               \/ processMovedOutFails \/ processMoveSelfFails \/ commandRebuild
  PROVE  IInv'
<1>1. UNCHANGED fs /\ Continue /\ \E roots : reinitialize(roots)
  BY Zenon DEF processStale, processOverflow, processRenameStale, processMovedOutFails,
         processMoveSelfFails, commandRebuild, executeCommand
<1> QED BY <1>1, ReinitKeeps, Zenon

(* A subtree that is not monitored any longer. *)
LEMMA RemoveKeeps ==
  ASSUME IInv, \/ processMovedOut \/ processMoveSelf
               \/ \E path \in Argument : commandAdd(path) \/ commandZap(path)
  PROVE  IInv'
<1>1. CASE processMovedOut \/ processMoveSelf
  <2>1. /\ UNCHANGED fs /\ buf' = Tail(buf) /\ Continue /\ pc = "process"
        /\ \E path : CanZap(path) /\ zapSubtree(path)
    BY <1>1, Zenon DEF processMovedOut, processMoveSelf, MovedOut, RootMoved, Processing
  <2>2. buf # <<>>
    BY <2>1 DEF IInv, BufferInUse
  <2>3. \E W \in SUBSET DOMAIN watch : inotify_rm_watch(W) /\ markCacheSlotEmpty(W)
    BY <2>1, Zenon DEF CanZap, zapSubtree
  <2> QED BY <2>1, <2>2, <2>3, ZapKeeps
<1>2. CASE \E path \in Argument : commandAdd(path) \/ commandZap(path)
  <2>1. PICK path \in Argument : commandAdd(path) \/ commandZap(path)
    BY <1>2, Zenon
  <2>2. /\ UNCHANGED fs /\ buf' = buf /\ Continue
        /\ (CanZap(path) /\ zapSubtree(path)) \/ zapSubtreeFails(path)
    BY <2>1, Zenon DEF commandAdd, commandZap, executeCommand
  <2>3. \E W \in SUBSET DOMAIN watch : inotify_rm_watch(W) /\ markCacheSlotEmpty(W)
    BY <2>2, Zenon DEF CanZap, zapSubtree, zapSubtreeFails
  <2> QED BY <2>2, <2>3, ZapKeeps
<1> QED BY <1>1, <1>2, Zenon

(* main() and the two read()s. *)
LEMMA ReadKeeps ==
  ASSUME IInv, select \/ commandQuit \/ read \/ reread
  PROVE  IInv'
<1>1. CASE select \/ commandQuit
  <2>1. UNCHANGED <<fs, watch, nextWd, queue, cache, buf>> /\ pc' \in {"read", "exit"} /\ pc = "select"
    BY <1>1, Zenon DEF select, commandQuit, executeCommand, inotify
  <2> QED BY <2>1, QuietKeeps, Zenon DEF IInv, InFlightSound, BufferInUse
<1>2. CASE read \/ reread
  <2>1. UNCHANGED <<fs, watch, nextWd, cache>>
    BY <1>2, Zenon DEF read, reread
  <2>2. Sound' = Sound
    BY <2>1, Zenon DEF Sound
  <2>3. buf' \in Seq(Sound) /\ buf' # <<>> /\ queue' \in Seq(Sound)
    <3> queue \in Seq(Sound) /\ buf \in Seq(Sound)
      BY Zenon DEF IInv, InFlightSound
    <3>1. CASE read
      <4> DEFINE n == Min({ReadMax, Len(queue)})
      <4>1. Len(queue) \in Nat \ {0}
        BY <3>1 DEF read
      <4>2. n \in 1 .. Len(queue)
        BY <4>1, ReadAssumption DEF Min
      <4>3. \A i \in 1 .. Len(queue) : queue[i] \in Sound
        BY ElementOfSeq, Zenon
      <4>4. buf' = SubSeq(queue, 1, n) /\ queue' = SubSeq(queue, n + 1, Len(queue))
        BY <3>1, Zenon DEF read
      <4> HIDE DEF n
      <4>5. SubSeq(queue, 1, n) \in Seq(Sound) /\ Len(SubSeq(queue, 1, n)) = n
        BY <4>2, <4>3, SubSeqProperties
      <4>6. SubSeq(queue, n + 1, Len(queue)) \in Seq(Sound)
        BY <4>2, <4>3, SubSeqProperties
      <4>7. SubSeq(queue, 1, n) # <<>>
        BY <4>2, <4>5, EmptySeq
      <4> QED BY <4>4, <4>5, <4>6, <4>7
    <3>2. CASE reread
      <4>1. buf # <<>> /\ buf' = buf \o queue /\ queue' = <<>>
        BY <3>2, Zenon DEF reread, IInv, BufferInUse
      <4> QED BY <4>1, ConcatProperties
    <3> QED BY <1>2, <3>1, <3>2, Zenon
  <2>4. FsTyped' /\ WatchTyped' /\ WatchesCached'
    BY <2>1, Zenon DEF IInv, FsTyped, fs, WatchTyped, WatchesCached
  <2>5. pc' = "process"
    BY <1>2, Zenon DEF read, reread
  <2>6. BufferInUse'
    BY <2>3, <2>5 DEF BufferInUse
  <2> QED BY <2>2, <2>3, <2>4, <2>6 DEF IInv, InFlightSound
<1> QED BY <1>1, <1>2, Zenon

(* A change to the tree: one or two events are about to be raised. *)
LEMMA FsStepKeeps ==
  ASSUME IInv, NEW p \in Proc, FsStep(p), UNCHANGED prog
  PROVE  IInv'
<1> FsTyped
  BY Zenon DEF IInv
<1> DEFINE dirs == Dir \cup {Top}
           kinds == {"CREATE", "DELETE_SELF", "MOVED_FROM", "MOVED_TO", "MOVE_SELF"}
<1>1. ASSUME NEW d \in dirs, NEW kind \in kinds, NEW n \in Label, kind = "DELETE_SELF" => n = Free
      PROVE  Stub(d, kind, n) \in StubSet
  <2>1. Stub(d, kind, n) \in [dir : Dir \cup {Top}, kind : Kind, name : Label, cookie : Nat]
    BY <1>1 DEF Stub, Kind, FsTyped
  <2>2. Plain(Stub(d, kind, n))
    BY <1>1 DEF Stub, Plain
  <2> QED BY <2>1, <2>2, Zenon DEF StubSet
<1>2. ASSUME NEW d \in Dir, Linked(d)
      PROVE  loc[d][1] \in dirs /\ loc[d][2] \in Label
  BY <1>2, Zenon DEF Linked, FsTyped, Place, Label
<1>3. ASSUME NEW stubs \in Seq(StubSet), Raise(p, stubs), NEW d \in Dir, NEW place \in Place,
             loc' = [loc EXCEPT ![d] = place]
      PROVE  FsTyped'
  BY <1>3 DEF Raise, FsTyped
<1> HIDE DEF dirs, kinds
<1>4. FsTyped' /\ UNCHANGED inotify
  <2>1. CASE \E d \in Dir : Rmdir(p, d)
    <3>1. PICK d \in Dir : Rmdir(p, d)
      BY <2>1, Zenon
    <3>2. <<Stub(d, "DELETE_SELF", Free)>> \in Seq(StubSet)
      BY <1>1 DEF dirs, kinds, Label
    <3> QED BY <1>3, <3>1, <3>2, Zenon DEF Rmdir, Place
  <2>2. CASE \E d \in Dir : MoveOut(p, d)
    <3>1. PICK d \in Dir : MoveOut(p, d)
      BY <2>2, Zenon
    <3>2. Stub(d, "MOVE_SELF", Free) \in StubSet
      BY <1>1, Zenon DEF dirs, kinds, Label
    <3>3. Stub(loc[d][1], "MOVED_FROM", loc[d][2]) \in StubSet
      BY <1>1, <1>2, <3>1, Zenon DEF MoveOut, kinds
    <3>4. Raise(p, <<Stub(d, "MOVE_SELF", Free)>>)
          \/ Raise(p, <<Stub(loc[d][1], "MOVED_FROM", loc[d][2])>>)
      BY <3>1, Zenon DEF MoveOut
    <3>5. /\ <<Stub(d, "MOVE_SELF", Free)>> \in Seq(StubSet)
          /\ <<Stub(loc[d][1], "MOVED_FROM", loc[d][2])>> \in Seq(StubSet)
      BY <3>2, <3>3
    <3> QED BY <1>3, <3>1, <3>4, <3>5, Zenon DEF MoveOut, Place
  <2>3. CASE \E d, q \in Dir, n \in Name : Mkdir(p, d, q, n)
    <3>1. PICK d \in Dir, q \in Dir, n \in Name : Mkdir(p, d, q, n)
      BY <2>3, Zenon
    <3>2. <<Stub(q, "CREATE", n)>> \in Seq(StubSet)
      BY <1>1 DEF dirs, kinds, Label
    <3>3. <<q, n>> \in Place
      BY Zenon DEF Place
    <3> QED BY <1>3, <3>1, <3>2, <3>3, Zenon DEF Mkdir
  <2>4. CASE \E d, q \in Dir, n \in Name : Rename(p, d, q, n)
    <3>1. PICK d \in Dir, q \in Dir, n \in Name : Rename(p, d, q, n)
      BY <2>4, Zenon
    <3>2. <<Stub(q, "MOVED_TO", n)>> \in Seq(StubSet)
      BY <1>1 DEF dirs, kinds, Label
    <3>3. Linked(d) => <<Stub(loc[d][1], "MOVED_FROM", loc[d][2])>> \in Seq(StubSet)
      BY <1>1, <1>2 DEF kinds
    <3>4. (IF Linked(d) THEN <<Stub(loc[d][1], "MOVED_FROM", loc[d][2])>> ELSE <<>>)
             \in Seq(StubSet)
      BY <3>3
    <3>5. PICK stubs \in Seq(StubSet) : Raise(p, stubs)
      BY <3>1, <3>2, <3>4, ConcatProperties, Zenon DEF Rename
    <3>6. <<q, n>> \in Place
      BY Zenon DEF Place
    <3> QED BY <1>3, <3>1, <3>5, <3>6, Zenon DEF Rename
  <2> QED BY <2>1, <2>2, <2>3, <2>4, Zenon DEF FsStep
<1>5. UNCHANGED <<watch, nextWd, queue, cache, buf, pc>>
  BY <1>4, Zenon DEF inotify, prog
<1>6. Sound' = Sound
  BY <1>5, Zenon DEF Sound
<1> QED BY <1>4, <1>5, <1>6 DEF IInv, InFlightSound, WatchTyped, BufferInUse, WatchesCached

(* The kernel removes the watch of a removed directory in the step that    *)
(* queues its DELETE_SELF.                                                 *)
LEMMA DeliveryKeeps ==
  ASSUME IInv, NEW p \in Proc, Delivery(p)
  PROVE  IInv'
<1> DEFINE s == Head(pend[p])
           gone == s.kind = "DELETE_SELF"
           to == IF s.kind = "MOVE_SELF" THEN WdOf(s.dir) \cap moveSelf ELSE WdOf(s.dir)
           w == CHOOSE v \in to : TRUE
           e == Event(w, s.kind, s.name, s.cookie)
           q == Post(queue, e)
<1>1. /\ pend[p] # <<>> /\ pend' = [pend EXCEPT ![p] = Tail(@)]
      /\ UNCHANGED <<loc, ops, nextWd, cache, buf, pc>>
  BY Zenon DEF Delivery, Deliver, prog
<1>2. IF to = {} THEN UNCHANGED <<watch, queue>>
      ELSE /\ queue' = IF gone THEN Post(q, Event(w, "IGNORED", Free, 0)) ELSE q
           /\ watch' = IF gone THEN Without(watch, to) ELSE watch
  BY Zenon DEF Delivery, Deliver
<1>3. pend[p] \in Seq(StubSet)
  BY Zenon DEF IInv, FsTyped
<1>4. s \in StubSet /\ Tail(pend[p]) \in Seq(StubSet)
  BY <1>1, <1>3, HeadTailProperties
<1>5. FsTyped'
  BY <1>1, <1>4, Zenon DEF IInv, FsTyped
<1>6. to \subseteq DOMAIN watch /\ (to # {} => w \in to)
  BY Zenon DEF WdOf
<1> HIDE DEF to, w, s
<1>7. DOMAIN watch' \subseteq DOMAIN watch
  BY <1>2, Zenon DEF Without
<1>8. WatchTyped' /\ WatchesCached'
  BY <1>1, <1>7 DEF IInv, WatchTyped, WatchesCached
<1>9. Sound \subseteq Sound' /\ queue \in Seq(Sound') /\ buf' \in Seq(Sound')
  BY <1>1, <1>7, SoundKept DEF IInv, WatchTyped, InFlightSound
<1>10. queue' \in Seq(Sound')
  <2>1. CASE to = {}
    BY <1>2, <1>9, <2>1
  <2>2. CASE to # {}
    <3>1. w \in 1 .. nextWd - 1 /\ w \in Nat
      BY <1>6, <2>2 DEF IInv, WatchTyped
    <3>2. e \in Entry /\ e.kind = s.kind /\ e.wd = w
      <4>1. s \in [dir : Dir \cup {Top}, kind : Kind, name : Label, cookie : Nat]
        BY <1>4, Zenon DEF StubSet
      <4> QED BY <3>1, <4>1 DEF Event, Entry
    <3>3. gone => w \notin DOMAIN watch'
      BY <1>2, <1>6, <2>2 DEF Without
    <3>4. e \in Sound'
      <4>1. Plain(e)
        <5>1. Plain(s)
          BY <1>4, Zenon DEF StubSet
        <5>2. e.kind = s.kind /\ e.name = s.name /\ e.cookie = s.cookie
          BY DEF Event
        <5> QED BY <5>1, <5>2, Zenon DEF Plain
      <4> HIDE DEF e
      <4> QED BY <1>1, <3>1, <3>2, <3>3, <4>1 DEF Sound
    <3>5. Event(w, "IGNORED", Free, 0) \in Sound'
      <4>1. Event(w, "IGNORED", Free, 0) \in Entry
        BY <3>1, Zenon DEF Event, Entry, Label, Kind
      <4>2. Event(w, "IGNORED", Free, 0).kind # "DELETE_SELF"
        BY Zenon DEF Event
      <4> QED BY <4>1, <4>2, Zenon DEF Sound, Plain
    <3>6. OVERFLOW \in Sound'
      BY <1>9, OverflowSound, Zenon
    <3> HIDE DEF e
    <3>7. q \in Seq(Sound')
      BY <1>9, <3>4, <3>6, PostType
    <3> HIDE DEF q
    <3>8. Post(q, Event(w, "IGNORED", Free, 0)) \in Seq(Sound')
      BY <3>5, <3>6, <3>7, PostType
    <3> QED BY <1>2, <2>2, <3>7, <3>8
  <2> QED BY <2>1, <2>2, Zenon
<1> QED BY <1>1, <1>5, <1>8, <1>9, <1>10 DEF IInv, InFlightSound, BufferInUse

-----------------------------------------------------------------------------
(* Every step of the program, its user, the other processes and the kernel *)
(* keeps the invariant.                                                    *)
LEMMA NextIInv == IInv /\ [Next]_vars => IInv'
<1> SUFFICES ASSUME IInv, [Next]_vars PROVE IInv'
  BY Zenon
<1>1. CASE Program
  BY <1>1, WalkKeeps, ProcessKeeps, RebuildKeeps, RemoveKeeps, ReadKeeps DEF Program
<1>2. CASE Command
  BY <1>2, RebuildKeeps, RemoveKeeps, ReadKeeps DEF Command
<1>3. CASE \E p \in Proc : Paced /\ FsStep(p) /\ UNCHANGED prog
  BY <1>3, FsStepKeeps
<1>4. CASE \E p \in Proc : Delivery(p)
  BY <1>4, DeliveryKeeps, Zenon
<1>5. CASE UNCHANGED vars
  <2>1. UNCHANGED <<fs, watch, nextWd, queue, cache, buf, pc>>
    BY <1>5, Zenon DEF vars, inotify, prog
  <2> QED BY <2>1, QuietKeeps, Zenon DEF IInv, InFlightSound, BufferInUse
<1> QED BY <1>1, <1>2, <1>3, <1>4, <1>5 DEF Next

(* No watch of inotify_dtree is ever without its entry in the cache,       *)
(* whatever the tree, the processes that change it, the commands and the   *)
(* lengths of the queue and of the buffer: zapSubtree() and                *)
(* traverseTree() keep the two together, and the slot that is emptied for  *)
(* a DELETE_SELF never belongs to a directory that is watched.             *)
THEOREM NoWatchLost == Spec => []WatchesCached
<1>1. IInv => WatchesCached
  BY Zenon DEF IInv
<1> QED BY <1>1, InitIInv, NextIInv, PTL DEF Spec

-----------------------------------------------------------------------------
(* Entries without a watch.  A directory has one watch, so that the one    *)
(* DELETE_SELF speaks for everything the kernel has removed.               *)

OneWatch == \A v, w \in DOMAIN watch : watch[v] = watch[w] => v = w
Removed(w) == Event(w, "DELETE_SELF", Free, 0)
DeadInv == OneWatch /\ DeadEntriesKnown

(* The elements of a sequence are its head and those of its tail. *)
LEMMA TailRange ==
  ASSUME NEW S, NEW q \in Seq(S), q # <<>>
  PROVE  Range(q) = {Head(q)} \cup Range(Tail(q))
<1>1. /\ Len(q) \in Nat \ {0} /\ Tail(q) \in Seq(S) /\ Len(Tail(q)) = Len(q) - 1
      /\ Head(q) = q[1] /\ \A i \in 1 .. Len(q) - 1 : Tail(q)[i] = q[i + 1]
  BY EmptySeq, HeadTailProperties
<1>2. DOMAIN q = 1 .. Len(q) /\ DOMAIN Tail(q) = 1 .. Len(q) - 1
  BY <1>1
<1>3. ASSUME NEW i \in DOMAIN q PROVE q[i] \in {Head(q)} \cup Range(Tail(q))
  <2>1. CASE i = 1
    BY <1>1, <2>1
  <2>2. CASE i # 1
    <3>1. i - 1 \in DOMAIN Tail(q) /\ Tail(q)[i - 1] = q[i]
      BY <1>1, <1>2, <2>2
    <3> QED BY <3>1, Zenon DEF Range
  <2> QED BY <2>1, <2>2
<1>4. ASSUME NEW i \in DOMAIN Tail(q) PROVE Tail(q)[i] \in Range(q)
  <2>1. i + 1 \in DOMAIN q /\ Tail(q)[i] = q[i + 1]
    BY <1>1, <1>2
  <2> QED BY <2>1, Zenon DEF Range
<1>5. Head(q) \in Range(q)
  <2>1. 1 \in DOMAIN q
    BY <1>1, <1>2
  <2> QED BY <1>1, <2>1, Zenon DEF Range
<1> QED BY <1>3, <1>4, <1>5, Zenon DEF Range

(* Appending keeps what is there. *)
LEMMA AppendRange ==
  ASSUME NEW S, NEW q \in Seq(S), NEW e \in S
  PROVE  Range(Append(q, e)) = Range(q) \cup {e}
<1>1. /\ DOMAIN q = 1 .. Len(q) /\ Len(q) \in Nat /\ DOMAIN Append(q, e) = 1 .. Len(q) + 1
      /\ \A i \in 1 .. Len(q) : Append(q, e)[i] = q[i]
      /\ Append(q, e)[Len(q) + 1] = e
  BY AppendProperties
<1>2. /\ \A i \in DOMAIN q : i \in DOMAIN Append(q, e) /\ Append(q, e)[i] = q[i]
      /\ \A i \in DOMAIN Append(q, e) : i \in DOMAIN q \/ i = Len(q) + 1
      /\ Len(q) + 1 \in DOMAIN Append(q, e)
  BY <1>1
<1> QED BY <1>1, <1>2, Zenon DEF Range

(* So does concatenation. *)
LEMMA ConcatRange ==
  ASSUME NEW S, NEW q \in Seq(S), NEW s \in Seq(S)
  PROVE  Range(q \o s) = Range(q) \cup Range(s)
<1>1. /\ Len(q) \in Nat /\ Len(s) \in Nat /\ DOMAIN (q \o s) = 1 .. Len(q) + Len(s)
      /\ DOMAIN q = 1 .. Len(q) /\ DOMAIN s = 1 .. Len(s)
      /\ \A i \in 1 .. Len(q) + Len(s) : (q \o s)[i] = IF i <= Len(q) THEN q[i] ELSE s[i - Len(q)]
  BY ConcatProperties
<1>2. ASSUME NEW i \in DOMAIN q PROVE q[i] \in Range(q \o s)
  <2>1. i \in DOMAIN (q \o s) /\ (q \o s)[i] = q[i]
    BY <1>1
  <2> QED BY <2>1, Zenon DEF Range
<1>3. ASSUME NEW i \in DOMAIN s PROVE s[i] \in Range(q \o s)
  <2>1. /\ i + Len(q) \in DOMAIN (q \o s) /\ (i + Len(q)) - Len(q) = i /\ ~(i + Len(q) <= Len(q))
    BY <1>1
  <2>2. (q \o s)[i + Len(q)] = s[i]
    BY <1>1, <2>1
  <2> QED BY <2>1, <2>2, Zenon DEF Range
<1>4. ASSUME NEW i \in DOMAIN (q \o s) PROVE (q \o s)[i] \in Range(q) \cup Range(s)
  <2>1. \/ i \in DOMAIN q /\ (q \o s)[i] = q[i]
        \/ i - Len(q) \in DOMAIN s /\ (q \o s)[i] = s[i - Len(q)]
    BY <1>1
  <2> QED BY <2>1, Zenon DEF Range
<1> QED BY <1>2, <1>3, <1>4, Zenon DEF Range

(* The two parts of a sequence that is cut. *)
LEMMA CutRange ==
  ASSUME NEW S, NEW q \in Seq(S), NEW n \in 1 .. Len(q)
  PROVE  Range(q) \subseteq Range(SubSeq(q, 1, n)) \cup Range(SubSeq(q, n + 1, Len(q)))
<1>1. /\ Len(q) \in Nat /\ n \in Nat /\ DOMAIN q = 1 .. Len(q) /\ \A i \in 1 .. Len(q) : q[i] \in S
  BY ElementOfSeq
<1>2. DOMAIN SubSeq(q, 1, n) = 1 .. n /\ \A i \in 1 .. n : SubSeq(q, 1, n)[i] = q[i]
  BY <1>1
<1>3. /\ DOMAIN SubSeq(q, n + 1, Len(q)) = 1 .. Len(q) - n
      /\ \A i \in 1 .. Len(q) - n : SubSeq(q, n + 1, Len(q))[i] = q[i + n]
  BY <1>1
<1>4. ASSUME NEW i \in DOMAIN q PROVE q[i] \in Range(SubSeq(q, 1, n)) \cup Range(SubSeq(q, n + 1, Len(q)))
  <2>1. CASE i \in 1 .. n
    BY <1>2, <2>1, Zenon DEF Range
  <2>2. CASE i \notin 1 .. n
    <3>1. i - n \in 1 .. Len(q) - n /\ (i - n) + n = i
      BY <1>1, <2>2
    <3>2. SubSeq(q, n + 1, Len(q))[i - n] = q[i]
      BY <1>3, <3>1
    <3> QED BY <1>3, <3>1, <3>2, Zenon DEF Range
  <2> QED BY <2>1, <2>2
<1> QED BY <1>4, Zenon DEF Range

(* An event that is posted is in the queue, merged with an equal one, or   *)
(* there is an OVERFLOW; what was in the queue stays.                      *)
LEMMA PostRange ==
  ASSUME NEW S, NEW q \in Seq(S), NEW e \in S, OVERFLOW \in S
  PROVE  /\ Range(q) \subseteq Range(Post(q, e))
         /\ \/ e \in Range(Post(q, e)) \/ OVERFLOW \in Range(Post(q, e))
            \/ \E f \in Range(Post(q, e)) : SameEvent(f, e)
<1>1. /\ Range(Append(q, e)) = Range(q) \cup {e}
      /\ Range(Append(q, OVERFLOW)) = Range(q) \cup {OVERFLOW}
  <2>1. \A x \in S : Range(Append(q, x)) = Range(q) \cup {x}
    BY AppendRange
  <2> QED BY <2>1, Zenon
<1>2. q # <<>> => Last(q) \in Range(q)
  <2>1. q # <<>> => Len(q) \in DOMAIN q
    BY EmptySeq
  <2> QED BY <2>1, Zenon DEF Last, Range
<1>3. q = <<>> => Len(q) < QMax
  BY QMaxAssumption
<1> QED BY <1>1, <1>2, <1>3, Zenon DEF Post

(* Several events that are posted leave what was in the queue. *)
LEMMA PostAllRange ==
  ASSUME NEW S, NEW q \in Seq(S), NEW s \in Seq(S), OVERFLOW \in S
  PROVE  Range(q) \subseteq Range(PostAll(q, s))
<1> DEFINE room == QMax - Len(q)
           part == SubSeq(s, 1, room)
<1>1. Len(s) \in Nat /\ room \in Int /\ \A i \in 1 .. Len(s) : s[i] \in S
  BY QMaxAssumption, ElementOfSeq
<1>2. ~(Len(s) <= room) => part \in Seq(S)
  <2> HIDE DEF room
  <2>1. ~(Len(s) <= room) => \A i \in 1 .. room : s[i] \in S
    BY <1>1
  <2> QED BY <1>1, <2>1, SubSeqProperties DEF part
<1> HIDE DEF part
<1>3. /\ Range(q \o s) = Range(q) \cup Range(s)
      /\ Range(Append(q, OVERFLOW)) = Range(q) \cup {OVERFLOW}
  <2>1. \A x \in S : Range(Append(q, x)) = Range(q) \cup {x}
    BY AppendRange
  <2>2. Range(q \o s) = Range(q) \cup Range(s)
    BY ConcatRange
  <2> QED BY <2>1, <2>2, Zenon
<1>4. ~(Len(s) <= room) => Range(q) \subseteq Range(Append(q \o part, OVERFLOW))
  <2> SUFFICES ASSUME part \in Seq(S) PROVE Range(q) \subseteq Range(Append(q \o part, OVERFLOW))
    BY <1>2, Zenon
  <2>1. q \o part \in Seq(S)
    BY ConcatProperties
  <2>2. Range(q \o part) = Range(q) \cup Range(part)
    BY ConcatRange
  <2>3. \A u \in Seq(S) : Range(Append(u, OVERFLOW)) = Range(u) \cup {OVERFLOW}
    BY AppendRange
  <2> QED BY <2>1, <2>2, <2>3, Zenon
<1> QED BY <1>3, <1>4, Zenon DEF PostAll, part

(* A step that makes no entry dead, and drops neither a DELETE_SELF of one *)
(* that is nor an OVERFLOW.                                                *)
LEMMA DeadKept ==
  ASSUME DeadEntriesKnown,
         DOMAIN cache' \ DOMAIN watch' \subseteq DOMAIN cache \ DOMAIN watch,
         \A w \in DOMAIN cache' \ DOMAIN watch' : InFlight(Removed(w)) => InFlight(Removed(w))',
         InFlight(OVERFLOW) => InFlight(OVERFLOW)',
         pc = "exit" => pc' = "exit"
  PROVE  DeadEntriesKnown'
  BY Zenon DEF DeadEntriesKnown, Removed, OVERFLOW, Event

(* A step that leaves watches, descriptors and events alone. *)
LEMMA DeadUnmoved ==
  ASSUME DeadInv, UNCHANGED <<watch, queue, buf>>, DOMAIN cache' = DOMAIN cache, pc = "exit" => pc' = "exit"
  PROVE  DeadInv'
<1>1. OneWatch'
  BY Zenon DEF DeadInv, OneWatch
<1>2. /\ \A w : InFlight(Removed(w)) => InFlight(Removed(w))'
      /\ InFlight(OVERFLOW) => InFlight(OVERFLOW)'
  BY Zenon DEF InFlight, Removed, OVERFLOW, Event
<1>3. DeadEntriesKnown'
  BY <1>2, DeadKept, Zenon DEF DeadInv
<1> QED BY <1>1, <1>3, Zenon DEF DeadInv

(* The first event of the buffer, not an OVERFLOW, is done with. *)
LEMMA DeadDropped ==
  ASSUME DeadInv, NEW S, buf \in Seq(S), buf # <<>>, buf' = Tail(buf), pc = "process",
         UNCHANGED <<watch, queue>>,
         DOMAIN cache' \subseteq DOMAIN cache, ev.kind # "OVERFLOW",
         ev.kind = "DELETE_SELF" => DOMAIN cache' = DOMAIN cache \ {ev.wd}
  PROVE  DeadInv'
<1>1. Range(buf) = {ev} \cup Range(buf')
  BY TailRange, Zenon DEF ev
<1>2. OneWatch'
  BY Zenon DEF DeadInv, OneWatch
<1>3. ev # OVERFLOW /\ \A w \in DOMAIN cache' : ev # Removed(w)
  <2>1. OVERFLOW.kind = "OVERFLOW"
    BY DEF OVERFLOW, Event
  <2>2. \A w : Removed(w).kind = "DELETE_SELF" /\ Removed(w).wd = w
    BY DEF Removed, Event
  <2> QED BY <2>1, <2>2, Zenon
<1>4. /\ \A w \in DOMAIN cache' : InFlight(Removed(w)) => InFlight(Removed(w))'
      /\ InFlight(OVERFLOW) => InFlight(OVERFLOW)'
  BY <1>1, <1>3, Zenon DEF InFlight, Removed, OVERFLOW, Event
<1>5. DeadEntriesKnown'
  BY <1>4, DeadKept, Zenon DEF DeadInv
<1> QED BY <1>2, <1>5, Zenon DEF DeadInv

(* A rebuild: no entry is left. *)
LEMMA DeadReinit ==
  ASSUME NEW roots, reinitialize(roots)
  PROVE  DeadInv'
<1>1. DOMAIN cache' = {} /\ DOMAIN watch' = {}
  BY DEF reinitialize, inotify_init
<1> QED BY <1>1, Zenon DEF DeadInv, OneWatch, DeadEntriesKnown

(* Watches are removed together with their entries, and their IGNORED is   *)
(* queued.                                                                 *)
LEMMA DeadZap ==
  ASSUME IInv, DeadInv, NEW W \in SUBSET DOMAIN watch, pc # "exit",
         inotify_rm_watch(W), markCacheSlotEmpty(W),
         \/ buf' = buf
         \/ buf # <<>> /\ buf' = Tail(buf) /\ ev.kind \notin {"OVERFLOW", "DELETE_SELF"}
  PROVE  DeadInv'
<1>1. watch' = Without(watch, W) /\ cache' = Without(cache, W)
  BY Zenon DEF inotify_rm_watch, markCacheSlotEmpty
<1>2. OneWatch'
  BY <1>1, Zenon DEF DeadInv, OneWatch, Without
<1>3. DOMAIN cache' \ DOMAIN watch' \subseteq DOMAIN cache \ DOMAIN watch
  BY <1>1, Zenon DEF Without
<1>4. Range(queue) \subseteq Range(queue')
  <2> DEFINE r == SetToSeq(W)
             s == [i \in DOMAIN r |-> Event(r[i], "IGNORED", Free, 0)]
             T == Sound \cup Range(s)
  <2>1. IsFiniteSet(W)
    <3>1. W \in SUBSET (1 .. nextWd - 1) /\ nextWd - 1 \in Int
      BY DEF IInv, WatchTyped
    <3>2. IsFiniteSet(1 .. nextWd - 1)
      BY <3>1, FS_Interval
    <3> QED BY <3>1, <3>2, FS_Subset
  <2>2. r \in [1 .. Cardinality(W) -> W] /\ Cardinality(W) \in Nat
    BY <2>1, SetToSeqType, Zenon
  <2>3. s \in [1 .. Cardinality(W) -> T]
    BY <2>2, Zenon DEF Range
  <2> HIDE DEF T, s
  <2>4. s \in Seq(T)
    BY <2>2, <2>3, SeqDef
  <2>5. Sound \subseteq T /\ OVERFLOW \in T
    BY OverflowSound, Zenon DEF T
  <2>6. queue \in Seq(T)
    BY <2>5, SeqMonotonic DEF IInv, InFlightSound
  <2>7. queue' = PostAll(queue, s)
    BY Zenon DEF inotify_rm_watch, s
  <2> QED BY <2>4, <2>5, <2>6, <2>7, PostAllRange
<1>5. \A e : e \in Range(buf) /\ (e = OVERFLOW \/ \E w : e = Removed(w)) => e \in Range(buf')
  <2>1. CASE buf' = buf
    BY <2>1, Zenon
  <2>2. CASE buf # <<>> /\ buf' = Tail(buf) /\ ev.kind \notin {"OVERFLOW", "DELETE_SELF"}
    <3>1. Range(buf) = {ev} \cup Range(buf')
      BY <2>2, TailRange DEF ev, IInv, InFlightSound
    <3>2. OVERFLOW.kind = "OVERFLOW" /\ \A w : Removed(w).kind = "DELETE_SELF"
      BY DEF OVERFLOW, Removed, Event
    <3> QED BY <2>2, <3>1, <3>2, Zenon
  <2> QED BY <2>1, <2>2, Zenon
<1>6. /\ \A w : InFlight(Removed(w)) => InFlight(Removed(w))'
      /\ InFlight(OVERFLOW) => InFlight(OVERFLOW)'
  BY <1>4, <1>5, Zenon DEF InFlight, Removed, OVERFLOW, Event
<1>7. DeadEntriesKnown'
  BY <1>3, <1>6, DeadKept, Zenon DEF DeadInv
<1> QED BY <1>2, <1>7, Zenon DEF DeadInv

(* The walk: a new entry comes with its watch, of a directory that had     *)
(* none.                                                                   *)
LEMMA DeadWalk ==
  ASSUME IInv, DeadInv, \/ VisitNothing \/ VisitStat \/ VisitOpen \/ VisitAbort
                        \/ traverseTreeFails \/ traverseTree \/ VisitList
  PROVE  DeadInv'
<1>1. CASE \/ VisitNothing \/ VisitStat \/ VisitOpen \/ VisitAbort \/ traverseTreeFails \/ VisitList
  <2>1. UNCHANGED <<watch, queue, cache, buf>> /\ pc # "exit"
    BY <1>1, Zenon DEF VisitNothing, VisitStat, VisitOpen, VisitAbort, traverseTreeFails, VisitList, inotify
  <2> QED BY <2>1, DeadUnmoved, Zenon
<1>2. CASE traverseTree
  <2> DEFINE d == resolve(cur.path)
  <2>1. /\ inotify_add_watch(d, isRootDirPath(cur.path))
        /\ IF findWatch(wdFor(d)) THEN UNCHANGED cache ELSE addWatchToCache(wdFor(d), cur.path)
        /\ UNCHANGED <<buf, queue>> /\ pc # "exit"
    BY <1>2, Zenon DEF traverseTree, inotify_add_watch
  <2>2. DOMAIN cache' = DOMAIN cache \cup {wdFor(d)}
    BY <2>1, Zenon DEF findWatch, addWatchToCache
  <2> HIDE DEF d
  <2>3. WdOf(d) # {} => wdFor(d) \in DOMAIN watch
    BY Zenon DEF wdFor, WdOf
  <2>4. WdOf(d) = {} => wdFor(d) = nextWd /\ nextWd \notin DOMAIN watch
    <3>1. nextWd \notin DOMAIN watch
      BY DEF IInv, WatchTyped
    <3> QED BY <3>1, Zenon DEF wdFor
  <2>5. \/ UNCHANGED watch /\ WdOf(d) # {}
        \/ /\ watch' = [w \in DOMAIN watch \cup {nextWd} |-> IF w = nextWd THEN d ELSE watch[w]]
           /\ WdOf(d) = {}
    BY <2>1, Zenon DEF inotify_add_watch
  <2>6. OneWatch'
    <3>1. CASE UNCHANGED watch
      BY <3>1, Zenon DEF DeadInv, OneWatch
    <3>2. CASE /\ watch' = [w \in DOMAIN watch \cup {nextWd} |-> IF w = nextWd THEN d ELSE watch[w]]
               /\ WdOf(d) = {}
      <4>1. \A w \in DOMAIN watch : watch[w] # d
        BY <3>2, Zenon DEF WdOf
      <4>2. /\ \A w \in DOMAIN watch' : w = nextWd \/ w \in DOMAIN watch
            /\ \A w \in DOMAIN watch : w # nextWd => watch'[w] = watch[w]
            /\ watch'[nextWd] = d
        BY <3>2, Zenon
      <4> QED BY <4>1, <4>2, Zenon DEF DeadInv, OneWatch
    <3> QED BY <2>5, <3>1, <3>2, Zenon
  <2>7. DOMAIN watch' = DOMAIN watch \cup {wdFor(d)}
    BY <2>3, <2>4, <2>5, Zenon
  <2>8. DOMAIN cache' \ DOMAIN watch' \subseteq DOMAIN cache \ DOMAIN watch
    BY <2>2, <2>7, Zenon
  <2>9. /\ \A w : InFlight(Removed(w)) => InFlight(Removed(w))'
        /\ InFlight(OVERFLOW) => InFlight(OVERFLOW)'
    BY <2>1, Zenon DEF InFlight, Removed, OVERFLOW, Event
  <2>10. DeadEntriesKnown'
    BY <2>1, <2>8, <2>9, DeadKept, Zenon DEF DeadInv
  <2> QED BY <2>6, <2>10, Zenon DEF DeadInv
<1> QED BY <1>1, <1>2, Zenon

(* The events of the buffer: the entry goes with its DELETE_SELF. *)
LEMMA DeadProcess ==
  ASSUME IInv, DeadInv, \/ processIgnored \/ processCreate \/ processDeleteSelf
                        \/ processRename \/ processHanging \/ exitNoRoots
  PROVE  DeadInv'
<1> buf \in Seq(Sound)
  BY Zenon DEF IInv, InFlightSound
<1>1. CASE processIgnored \/ processCreate \/ processDeleteSelf
  <2>1. /\ pc = "process" /\ buf' = Tail(buf) /\ UNCHANGED <<watch, queue>>
        /\ ev.kind \in {"IGNORED", "CREATE", "MOVED_TO", "DELETE_SELF"}
        /\ \/ cache' = cache /\ ev.kind # "DELETE_SELF"
           \/ cache' = Without(cache, {ev.wd})
    BY <1>1, Zenon DEF processIgnored, processCreate, processDeleteSelf, Processing,
                       markCacheSlotEmpty, inotify
  <2>2. buf # <<>>
    BY <2>1, Zenon DEF IInv, BufferInUse
  <2>3. /\ DOMAIN cache' \subseteq DOMAIN cache /\ ev.kind # "OVERFLOW"
        /\ ev.kind = "DELETE_SELF" => DOMAIN cache' = DOMAIN cache \ {ev.wd}
    BY <2>1, Zenon DEF Without
  <2> QED BY <2>1, <2>2, <2>3, DeadDropped, Zenon
<1>2. CASE processRename
  <2>1. /\ pc = "process" /\ UNCHANGED <<watch, queue>> /\ DOMAIN cache' = DOMAIN cache
        /\ buf' = Tail(Tail(buf)) /\ Len(buf) > 1
        /\ ev.kind = "MOVED_FROM" /\ nextEv.kind = "MOVED_TO"
    BY <1>2, Zenon DEF processRename, Processing, rewriteCachedPaths, Paired, inotify
  <2>2. buf # <<>>
    BY <2>1, Zenon DEF IInv, BufferInUse
  <2>3. Tail(buf) \in Seq(Sound) /\ Tail(buf) # <<>> /\ Head(Tail(buf)) = nextEv
    <3>1. Tail(buf) \in Seq(Sound) /\ Tail(buf) # <<>>
      BY <2>1, TailOfTwo
    <3>2. Head(Tail(buf)) = Tail(buf)[1]
      BY <3>1, HeadTailProperties
    <3>3. Tail(buf)[1] = buf[2]
      BY <2>1, <2>2, HeadTailProperties
    <3> QED BY <3>1, <3>2, <3>3, Zenon DEF nextEv
  <2>4. Range(buf) = {ev} \cup Range(Tail(buf))
    BY <2>2, TailRange DEF ev
  <2>5. Range(Tail(buf)) = {nextEv} \cup Range(buf')
    <3>1. \A u \in Seq(Sound) : u # <<>> => Range(u) = {Head(u)} \cup Range(Tail(u))
      BY TailRange
    <3> QED BY <2>1, <2>3, <3>1, Zenon
  <2>6. OVERFLOW.kind = "OVERFLOW" /\ \A w : Removed(w).kind = "DELETE_SELF"
    BY DEF OVERFLOW, Removed, Event
  <2>7. \A e : e \in Range(buf) /\ (e = OVERFLOW \/ \E w : e = Removed(w)) => e \in Range(buf')
    BY <2>1, <2>4, <2>5, <2>6, Zenon
  <2>8. /\ \A w : InFlight(Removed(w)) => InFlight(Removed(w))'
        /\ InFlight(OVERFLOW) => InFlight(OVERFLOW)'
    BY <2>1, <2>7, Zenon DEF InFlight, Removed, OVERFLOW, Event
  <2>9. OneWatch'
    BY <2>1, Zenon DEF DeadInv, OneWatch
  <2>10. DeadEntriesKnown'
    BY <2>1, <2>8, DeadKept, Zenon DEF DeadInv
  <2> QED BY <2>9, <2>10, Zenon DEF DeadInv
<1>3. CASE processHanging \/ exitNoRoots
  <2>1. UNCHANGED <<watch, queue, cache, buf>> /\ pc = "process"
    BY <1>3, Zenon DEF processHanging, exitNoRoots, RootGone, Processing, inotify
  <2> QED BY <2>1, DeadUnmoved, Zenon
<1> QED BY <1>1, <1>2, <1>3, Zenon

(* Rebuilds, and subtrees that are zapped. *)
LEMMA DeadRemove ==
  ASSUME IInv, DeadInv,
         \/ processStale \/ processOverflow \/ processRenameStale \/ processMovedOutFails
         \/ processMoveSelfFails \/ commandRebuild \/ processMovedOut \/ processMoveSelf
         \/ \E path \in Argument : commandAdd(path) \/ commandZap(path)
  PROVE  DeadInv'
<1>1. CASE \/ processStale \/ processOverflow \/ processRenameStale \/ processMovedOutFails
           \/ processMoveSelfFails \/ commandRebuild
  <2>1. \E roots : reinitialize(roots)
    BY <1>1, Zenon DEF processStale, processOverflow, processRenameStale, processMovedOutFails,
                       processMoveSelfFails, commandRebuild
  <2> QED BY <2>1, DeadReinit, Zenon
<1>2. CASE processMovedOut \/ processMoveSelf
  <2>1. /\ buf' = Tail(buf) /\ pc = "process" /\ ev.kind \in {"MOVED_FROM", "MOVE_SELF"}
        /\ \E path : CanZap(path) /\ zapSubtree(path)
    BY <1>2, Zenon DEF processMovedOut, processMoveSelf, MovedOut, RootMoved, Processing
  <2>2. buf # <<>> /\ pc # "exit" /\ ev.kind \notin {"OVERFLOW", "DELETE_SELF"}
    BY <2>1, Zenon DEF IInv, BufferInUse
  <2>3. \E W \in SUBSET DOMAIN watch : inotify_rm_watch(W) /\ markCacheSlotEmpty(W)
    BY <2>1, Zenon DEF CanZap, zapSubtree
  <2> QED BY <2>1, <2>2, <2>3, DeadZap, Zenon
<1>3. CASE \E path \in Argument : commandAdd(path) \/ commandZap(path)
  <2>1. PICK path \in Argument : commandAdd(path) \/ commandZap(path)
    BY <1>3, Zenon
  <2>2. /\ buf' = buf /\ pc # "exit"
        /\ (CanZap(path) /\ zapSubtree(path)) \/ zapSubtreeFails(path)
    BY <2>1, Zenon DEF commandAdd, commandZap, executeCommand
  <2>3. \E W \in SUBSET DOMAIN watch : inotify_rm_watch(W) /\ markCacheSlotEmpty(W)
    BY <2>2, Zenon DEF CanZap, zapSubtree, zapSubtreeFails
  <2> QED BY <2>2, <2>3, DeadZap, Zenon
<1> QED BY <1>1, <1>2, <1>3, Zenon

(* The read()s move events from the queue to the buffer; the first one     *)
(* finds it empty.                                                         *)
LEMMA DeadRead ==
  ASSUME IInv, DeadInv, select \/ commandQuit \/ read \/ reread
  PROVE  DeadInv'
<1> queue \in Seq(Sound) /\ buf \in Seq(Sound)
  BY Zenon DEF IInv, InFlightSound
<1>1. CASE select \/ commandQuit
  <2>1. UNCHANGED <<watch, queue, cache, buf>> /\ pc # "exit"
    BY <1>1, Zenon DEF select, commandQuit, executeCommand, inotify
  <2> QED BY <2>1, DeadUnmoved, Zenon
<1>2. CASE read \/ reread
  <2>1. UNCHANGED <<watch, cache>> /\ pc # "exit"
    BY <1>2, Zenon DEF read, reread
  <2>2. Range(buf) \cup Range(queue) \subseteq Range(buf') \cup Range(queue')
    <3>1. CASE read
      <4> DEFINE n == Min({ReadMax, Len(queue)})
      <4>1. Len(queue) \in Nat \ {0}
        BY <3>1 DEF read
      <4>2. n \in 1 .. Len(queue)
        BY <4>1, ReadAssumption DEF Min
      <4>3. buf' = SubSeq(queue, 1, n) /\ queue' = SubSeq(queue, n + 1, Len(queue))
        BY <3>1, Zenon DEF read
      <4> HIDE DEF n
      <4>4. buf = <<>>
        BY <3>1, Zenon DEF read, IInv, BufferInUse
      <4>5. Range(buf) = {}
        BY <4>4 DEF Range
      <4>6. Range(queue) \subseteq Range(SubSeq(queue, 1, n)) \cup Range(SubSeq(queue, n + 1, Len(queue)))
        BY <4>2, CutRange
      <4> QED BY <4>3, <4>5, <4>6, Zenon
    <3>2. CASE reread
      <4>1. buf' = buf \o queue
        BY <3>2, Zenon DEF reread
      <4>2. Range(buf \o queue) = Range(buf) \cup Range(queue)
        BY ConcatRange
      <4> QED BY <4>1, <4>2, Zenon
    <3> QED BY <1>2, <3>1, <3>2, Zenon
  <2>3. /\ \A w : InFlight(Removed(w)) => InFlight(Removed(w))'
        /\ InFlight(OVERFLOW) => InFlight(OVERFLOW)'
    BY <2>2, Zenon DEF InFlight, Removed, OVERFLOW, Event
  <2>4. OneWatch'
    BY <2>1, Zenon DEF DeadInv, OneWatch
  <2>5. DeadEntriesKnown'
    BY <2>1, <2>3, DeadKept, Zenon DEF DeadInv
  <2> QED BY <2>4, <2>5, Zenon DEF DeadInv
<1> QED BY <1>1, <1>2, Zenon

(* The kernel queues the DELETE_SELF of the watch it removes, or an        *)
(* OVERFLOW.                                                               *)
LEMMA DeadDelivery ==
  ASSUME IInv, IInv', DeadInv, NEW p \in Proc, Delivery(p)
  PROVE  DeadInv'
<1> DEFINE s == Head(pend[p])
           gone == s.kind = "DELETE_SELF"
           to == IF s.kind = "MOVE_SELF" THEN WdOf(s.dir) \cap moveSelf ELSE WdOf(s.dir)
           w == CHOOSE v \in to : TRUE
           e == Event(w, s.kind, s.name, s.cookie)
           f == Event(w, "IGNORED", Free, 0)
           q == Post(queue, e)
           S == Sound \cup {e, f}
<1>1. pend[p] # <<>> /\ UNCHANGED <<cache, buf, pc>>
  BY Zenon DEF Delivery, Deliver, prog
<1>2. IF to = {} THEN UNCHANGED <<watch, queue>>
      ELSE /\ queue' = IF gone THEN Post(q, f) ELSE q
           /\ watch' = IF gone THEN Without(watch, to) ELSE watch
  BY Zenon DEF Delivery, Deliver
<1>3. s \in StubSet
  <2>1. pend[p] \in Seq(StubSet)
    BY Zenon DEF IInv, FsTyped
  <2> QED BY <1>1, <2>1, HeadTailProperties
<1>4. gone => e = Removed(w)
  BY <1>3, Zenon DEF StubSet, Plain, Removed
<1>5. (to # {} => w \in to) /\ \A v \in to : v \in DOMAIN watch /\ watch[v] = s.dir
  BY Zenon DEF WdOf
<1>6. \A v \in to : v = w
  BY <1>5, Zenon DEF DeadInv, OneWatch
<1>7. Sound \subseteq S /\ e \in S /\ f \in S /\ OVERFLOW \in S
  BY OverflowSound, Zenon
<1> HIDE DEF S, e, f, w, to, s
<1>8. queue \in Seq(S)
  BY <1>7, SeqMonotonic DEF IInv, InFlightSound
<1>9. q \in Seq(S)
  BY <1>7, <1>8, PostType
<1>10. /\ Range(queue) \subseteq Range(q)
       /\ e \in Range(q) \/ OVERFLOW \in Range(q) \/ \E g \in Range(q) : SameEvent(g, e)
  BY <1>7, <1>8, PostRange
<1>11. Range(q) \subseteq Range(Post(q, f))
  <2> HIDE DEF q
  <2> QED BY <1>7, <1>9, PostRange
<1>12. to # {} => Range(q) \subseteq Range(queue')
  BY <1>2, <1>11, Zenon
<1>13. Range(queue) \subseteq Range(queue')
  BY <1>2, <1>10, <1>12, Zenon
<1>14. OneWatch'
  <2>1. DOMAIN watch' \subseteq DOMAIN watch /\ \A v \in DOMAIN watch' : watch'[v] = watch[v]
    BY <1>2, Zenon DEF Without
  <2> QED BY <2>1, Zenon DEF DeadInv, OneWatch
<1>15. /\ \A v : InFlight(Removed(v)) => InFlight(Removed(v))'
       /\ InFlight(OVERFLOW) => InFlight(OVERFLOW)'
  BY <1>1, <1>13, Zenon DEF InFlight, Removed, OVERFLOW, Event
<1>16. CASE to # {} /\ gone
  <2>1. DOMAIN watch' = DOMAIN watch \ {w}
    BY <1>2, <1>5, <1>6, <1>16, Zenon DEF Without
  <2>2. Removed(w) \in Range(queue') \/ OVERFLOW \in Range(queue')
    <3>1. ASSUME NEW g \in Range(q), SameEvent(g, e) PROVE Removed(w) \in Range(q)
      <4>1. g \in Range(queue')
        BY <1>12, <1>16, <3>1, Zenon
      <4>2. g \in Sound'
        <5>1. queue' \in Seq(Sound')
          BY Zenon DEF IInv, InFlightSound
        <5>2. PICK i \in DOMAIN queue' : queue'[i] = g
          BY <4>1, Zenon DEF Range
        <5> QED BY <5>1, <5>2
      <4>3. g \in Entry /\ Plain(g)
        BY <4>2, Zenon DEF Sound, Plain, Entry, Kind, Label
      <4>4. g.wd = w /\ g.kind = "DELETE_SELF"
        <5>1. e.wd = w /\ e.kind = "DELETE_SELF"
          <6>1. Removed(w).wd = w /\ Removed(w).kind = "DELETE_SELF"
            BY DEF Removed, Event
          <6> QED BY <1>4, <1>16, <6>1, Zenon
        <5> QED BY <3>1, <5>1, Zenon DEF SameEvent
      <4>5. g = Removed(w)
        BY <4>3, <4>4 DEF Entry, Plain, Removed, Event
      <4> QED BY <3>1, <4>5, Zenon
    <3> QED BY <1>4, <1>10, <1>12, <1>16, <3>1, Zenon
  <2>0. PICK x : x = w
    BY Zenon
  <2>3. InFlight(Removed(x))' \/ InFlight(OVERFLOW)'
    BY <2>0, <2>2, Zenon DEF InFlight, Removed, OVERFLOW, Event
  <2>4. ASSUME NEW v \in DOMAIN cache' \ DOMAIN watch'
        PROVE  InFlight(Event(v, "DELETE_SELF", Free, 0))' \/ InFlight(OVERFLOW)' \/ pc' = "exit"
    <3>1. CASE v = x
      BY <2>3, <3>1, Zenon DEF Removed, Event, InFlight
    <3>2. CASE v # x
      <4>1. v \in DOMAIN cache \ DOMAIN watch
        BY <1>1, <2>0, <2>1, <3>2, Zenon
      <4>2. InFlight(Removed(v)) \/ InFlight(OVERFLOW) \/ pc = "exit"
        BY <4>1, Zenon DEF DeadInv, DeadEntriesKnown, Removed
      <4> QED BY <1>1, <1>15, <4>2, Zenon DEF Removed, Event
    <3> QED BY <3>1, <3>2, Zenon
  <2>5. DeadEntriesKnown'
    BY <2>4, Zenon DEF DeadEntriesKnown, Event, OVERFLOW
  <2> QED BY <1>14, <2>5, Zenon DEF DeadInv
<1>17. CASE ~(to # {} /\ gone)
  <2>1. UNCHANGED watch
    BY <1>2, <1>17, Zenon
  <2>2. DeadEntriesKnown'
    BY <1>1, <1>15, <2>1, DeadKept, Zenon DEF DeadInv
  <2> QED BY <1>14, <2>2, Zenon DEF DeadInv
<1> QED BY <1>16, <1>17, Zenon

(* Every step keeps the dead entries known. *)
LEMMA NextDead == IInv /\ IInv' /\ DeadInv /\ [Next]_vars => DeadInv'
<1> SUFFICES ASSUME IInv, IInv', DeadInv, [Next]_vars PROVE DeadInv'
  BY Zenon
<1>1. CASE Program
  BY <1>1, DeadWalk, DeadProcess, DeadRemove, DeadRead, Zenon DEF Program
<1>2. CASE Command
  BY <1>2, DeadRemove, DeadRead, Zenon DEF Command
<1>3. CASE \E p \in Proc : Paced /\ FsStep(p) /\ UNCHANGED prog
  <2>1. ASSUME NEW p \in Proc, FsStep(p) PROVE UNCHANGED inotify
    <3>1. ASSUME NEW d \in Dir, Rmdir(p, d) PROVE UNCHANGED inotify
      BY <3>1, Zenon DEF Rmdir
    <3>2. ASSUME NEW d \in Dir, MoveOut(p, d) PROVE UNCHANGED inotify
      BY <3>2, Zenon DEF MoveOut
    <3>3. ASSUME NEW d \in Dir, NEW q \in Dir, NEW n \in Name, Mkdir(p, d, q, n) \/ Rename(p, d, q, n)
          PROVE  UNCHANGED inotify
      BY <3>3, Zenon DEF Mkdir, Rename
    <3> QED BY <2>1, <3>1, <3>2, <3>3, Zenon DEF FsStep
  <2>2. UNCHANGED <<watch, queue, cache, buf, pc>>
    BY <1>3, <2>1, Zenon DEF inotify, prog
  <2> QED BY <2>2, DeadUnmoved, Zenon
<1>4. CASE \E p \in Proc : Delivery(p)
  BY <1>4, DeadDelivery, Zenon
<1>5. CASE UNCHANGED vars
  <2>1. UNCHANGED <<watch, queue, cache, buf, pc>>
    BY <1>5, Zenon DEF vars, inotify, prog
  <2> QED BY <2>1, DeadUnmoved, Zenon
<1> QED BY <1>1, <1>2, <1>3, <1>4, <1>5, Zenon DEF Next

(* An entry of the cache whose watch the kernel has removed is known: the  *)
(* DELETE_SELF that will remove it is queued or read, or the OVERFLOW that *)
(* will rebuild the cache, in spite of merged events, a full queue, a      *)
(* short buffer and every rebuild and command in between.                  *)
THEOREM NoDeadEntryStays == Spec => []DeadEntriesKnown
<1>1. Init => DeadInv
  <2> SUFFICES ASSUME Init PROVE DeadInv
    BY Zenon
  <2>1. DOMAIN cache = {} /\ DOMAIN watch = {}
    BY DEF Init, FsInit
  <2> QED BY <2>1, Zenon DEF DeadInv, OneWatch, DeadEntriesKnown
<1>2. DeadInv => DeadEntriesKnown
  BY Zenon DEF DeadInv
<1>3. Spec => []IInv
  BY InitIInv, NextIInv, PTL DEF Spec
<1> QED BY <1>1, <1>2, <1>3, NextDead, PTL DEF Spec
=============================================================================
