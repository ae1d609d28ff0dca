---------------------------- MODULE InotifyDtree ----------------------------
(***************************************************************************)
(* inotify_dtree keeps a cache of the pathnames of all directories in the  *)
(* trees it monitors, with the help of inotify watches.                    *)
(*                                                                         *)
(* The cache maps watch descriptors to paths: the array and its free slots *)
(* are left out.  A path is a sequence of names.  read() gets at most      *)
(* ReadMax events (the -b option); the second read(), after a MOVED_FROM   *)
(* at the end of the buffer, as many as there are.                         *)
(*                                                                         *)
(* nftw() visits paths: it calls lstat(), opens the directory, calls       *)
(* traverseTree() and then reads the names in the directory it has opened. *)
(* Every one of these steps, and inotify_add_watch(), looks at the tree as *)
(* it is then.                                                             *)
(*                                                                         *)
(* The option -a (abort on a cache problem) and unmounted file systems are *)
(* left out.                                                               *)
(***************************************************************************)
EXTENDS FsInotify, Functions

CONSTANTS
    ReadMax,   \* events that fit in the buffer of the first read()
    MaxOps,    \* how many changes to the tree and commands there are
    Pace       \* "settled": other processes, and the user, wait until the
               \* program is at rest; "between": while nftw() walks;
               \* "free": they do not wait

ASSUME ReadAssumption == ReadMax \in Nat \ {0} /\ MaxOps \in Nat
ASSUME PaceAssumption == Pace \subseteq {"settled", "between", "free"}

VARIABLES
    pace,          \* which of these it is
    cache,         \* wlCache: watch descriptor -> path
    rootDirPaths,  \* the roots that are still monitored
    pc,            \* where the program is
    ready,         \* select() has found the inotify descriptor readable
    buf,           \* events read and not yet processed
    firstTry,      \* the MOVED_FROM at the end of buf was not looked at yet
    todo,          \* nftw(): the paths it has yet to visit; top: its argument
    cur,           \* nftw(): the path it visits and the directory it opened
    cmds           \* commands executed

main == <<ready, cmds, pace>>
walk == <<todo, cur>>
prog == <<cache, rootDirPaths, pc, buf, firstTry, walk, main>>
vars == <<fs, inotify, prog>>

NoVisit == [path |-> <<>>, dir |-> Free]

(* What comes next: the rest of the walk, of the buffer, a first read() if *)
(* select() said so, or select().                                          *)
Continue == pc' = IF todo' # <<>> THEN "visit"
                  ELSE IF buf' # <<>> THEN "process"
                  ELSE IF ready' THEN "read" ELSE "select"

-----------------------------------------------------------------------------
(* The cache. *)

findWatch(w) == w \in DOMAIN cache
pathnameInCache(path) == path \in Range(cache)
isRootDirPath(path) == path \in {<<r>> : r \in rootDirPaths}

addWatchToCache(w, path) ==
    cache' = [v \in DOMAIN cache \cup {w} |-> IF v = w THEN path ELSE cache[v]]

markCacheSlotEmpty(W) == cache' = Without(cache, W)

fullPath(w, n) == Append(cache[w], n)

(* The cached descriptors of path and of everything below it. *)
Subtree(path) == {w \in DOMAIN cache : IsPrefix(path, cache[w])}

-----------------------------------------------------------------------------
(* watchSubtree(): nftw() with traverseTree(). *)

watchSubtree(paths) == [i \in DOMAIN paths |-> [path |-> paths[i], top |-> TRUE]]

(* lstat() fails.  nftw() fails if this is its argument; elsewhere it      *)
(* calls traverseTree() with FTW_NS and a stat buffer that is not filled   *)
(* in, which S_ISDIR() may take for a directory.                           *)
VisitNothing ==
    /\ pc = "visit" /\ resolve(Head(todo).path) = Free
    /\ todo' = Tail(todo)
    /\ UNCHANGED <<fs, inotify, cache, rootDirPaths, buf, firstTry, main>>
    /\ \/ cur' = NoVisit /\ Continue
       \/ /\ ~Head(todo).top
          /\ cur' = [path |-> Head(todo).path, dir |-> Free] /\ pc' = "watch"

VisitStat ==
    /\ pc = "visit" /\ resolve(Head(todo).path) # Free
    /\ pc' = "open"
    /\ UNCHANGED <<fs, inotify, cache, rootDirPaths, buf, firstTry, walk, main>>

VisitOpen ==
    /\ pc = "open" /\ resolve(Head(todo).path) # Free
    /\ pc' = "watch"
    /\ cur' = [path |-> Head(todo).path, dir |-> resolve(Head(todo).path)]
    /\ todo' = Tail(todo)
    /\ UNCHANGED <<fs, inotify, cache, rootDirPaths, buf, firstTry, main>>

(* opendir() fails where lstat() did not: nftw() gives up. *)
VisitAbort ==
    /\ pc = "open" /\ resolve(Head(todo).path) = Free
    /\ todo' = SelectSeq(Tail(todo), LAMBDA t : t.top)
    /\ UNCHANGED <<fs, inotify, cache, rootDirPaths, buf, firstTry, cur, main>>
    /\ Continue

(* inotify_add_watch() gets ENOENT: carry on. *)
traverseTreeFails ==
    /\ pc = "watch" /\ resolve(cur.path) = Free
    /\ pc' = "list"
    /\ UNCHANGED <<fs, inotify, cache, rootDirPaths, buf, firstTry, walk, main>>

traverseTree ==
    /\ pc = "watch" /\ resolve(cur.path) # Free
    /\ pc' = "list"
    /\ LET d == resolve(cur.path)
       IN  /\ inotify_add_watch(d, isRootDirPath(cur.path))
           /\ IF findWatch(wdFor(d)) THEN UNCHANGED cache
              ELSE addWatchToCache(wdFor(d), cur.path)
    /\ UNCHANGED <<fs, rootDirPaths, buf, firstTry, walk, main>>

(* readdir() of the directory that was opened. *)
VisitList ==
    /\ pc = "list"
    /\ \E names \in SetToSeqs({loc[e][2] : e \in Children(cur.dir)}) :
           todo' = [i \in DOMAIN names |->
                       [path |-> Append(cur.path, names[i]), top |-> FALSE]] \o todo
    /\ cur' = NoVisit
    /\ UNCHANGED <<fs, inotify, cache, rootDirPaths, buf, firstTry, main>>
    /\ Continue

-----------------------------------------------------------------------------
(* zapSubtree() succeeds if every watch it removes is still there. *)

CanZap(path) == Subtree(path) \subseteq DOMAIN watch

(* Mutant: the entries are emptied, the watches stay. *)
zapSubtreeKeepsWatches(path) ==
    /\ UNCHANGED inotify
    /\ markCacheSlotEmpty(Subtree(path))

zapSubtree(path) ==
    /\ inotify_rm_watch(Subtree(path))
    /\ markCacheSlotEmpty(Subtree(path))

(* Otherwise it stops at one that is not, having removed some. *)
zapSubtreeFails(path) ==
    /\ ~CanZap(path)
    /\ \E S \in SUBSET (Subtree(path) \cap DOMAIN watch) :
           inotify_rm_watch(S) /\ markCacheSlotEmpty(S)

(* A new inotify instance and a new cache; what is left of the buffer is   *)
(* dropped, the old instance's queue with it.                              *)
reinitialize(roots) ==
    /\ inotify_init
    /\ cache' = <<>>
    /\ LET r == SetToSeq(roots) IN todo' = watchSubtree([i \in DOMAIN r |-> <<r[i]>>])
    /\ buf' = <<>> /\ firstTry' = TRUE /\ cur' = NoVisit
    /\ rootDirPaths' = roots

-----------------------------------------------------------------------------
(* processNextInotifyEvent(): one action per kind of event. *)

ev == Head(buf)
nextEv == buf[2]

Processing(kinds) == pc = "process" /\ ev.kind \in kinds

(* The event is for a watch that is not in the cache. *)
processStale ==
    /\ Processing({"CREATE", "MOVED_TO", "DELETE_SELF", "MOVED_FROM", "MOVE_SELF"})
    /\ ~findWatch(ev.wd)
    /\ reinitialize(rootDirPaths)
    /\ UNCHANGED <<fs, main>>
    /\ Continue

processOverflow ==
    /\ Processing({"OVERFLOW"})
    /\ reinitialize(rootDirPaths)
    /\ UNCHANGED <<fs, main>>
    /\ Continue

processIgnored ==
    /\ Processing({"IGNORED"})
    /\ buf' = Tail(buf) /\ firstTry' = TRUE
    /\ UNCHANGED <<fs, inotify, cache, rootDirPaths, walk, main>>
    /\ Continue

(* A new directory is watched unless its path is in the cache. *)
processCreate ==
    /\ Processing({"CREATE", "MOVED_TO"}) /\ findWatch(ev.wd)
    /\ todo' = IF pathnameInCache(fullPath(ev.wd, ev.name)) THEN <<>>
               ELSE watchSubtree(<<fullPath(ev.wd, ev.name)>>)
    /\ buf' = Tail(buf) /\ firstTry' = TRUE
    /\ UNCHANGED <<fs, inotify, cache, rootDirPaths, cur, main>>
    /\ Continue

(* A root goes away.  The last one ends the program. *)
RootGone == Processing({"DELETE_SELF", "MOVE_SELF"}) /\ findWatch(ev.wd)
            /\ isRootDirPath(cache[ev.wd])
zapRootDirPath(path) == {r \in rootDirPaths : <<r>> # path}

exitNoRoots ==
    /\ RootGone /\ zapRootDirPath(cache[ev.wd]) = {}
    /\ rootDirPaths' = {} /\ pc' = "exit"
    /\ UNCHANGED <<fs, inotify, cache, buf, firstTry, walk, main>>

(* Mutant: the slot is not emptied. *)
processDeleteSelfKeeps ==
    /\ Processing({"DELETE_SELF"}) /\ findWatch(ev.wd)
    /\ zapRootDirPath(cache[ev.wd]) # {}
    /\ rootDirPaths' = zapRootDirPath(cache[ev.wd])
    /\ buf' = Tail(buf) /\ firstTry' = TRUE
    /\ UNCHANGED <<fs, inotify, cache, walk, main>>
    /\ Continue

(* The kernel has removed the watch. *)
processDeleteSelf ==
    /\ Processing({"DELETE_SELF"}) /\ findWatch(ev.wd)
    /\ zapRootDirPath(cache[ev.wd]) # {}
    /\ rootDirPaths' = zapRootDirPath(cache[ev.wd])
    /\ markCacheSlotEmpty({ev.wd})
    /\ buf' = Tail(buf) /\ firstTry' = TRUE
    /\ UNCHANGED <<fs, inotify, walk, main>>
    /\ Continue

(* A MOVED_FROM with its MOVED_TO right behind it is a rename within the   *)
(* trees.                                                                  *)
Paired == Len(buf) > 1 /\ nextEv.kind = "MOVED_TO" /\ nextEv.cookie = ev.cookie

(* Mutant: the directories below the renamed one keep their old paths. *)
rewriteCachedPathsFlat(old, new) ==
    cache' = [w \in DOMAIN cache |-> IF cache[w] = old THEN new ELSE cache[w]]

rewriteCachedPaths(old, new) ==
    cache' = [w \in DOMAIN cache |->
                IF IsPrefix(old, cache[w])
                THEN new \o SubSeq(cache[w], Len(old) + 1, Len(cache[w]))
                ELSE cache[w]]

processRename ==
    /\ Processing({"MOVED_FROM"}) /\ findWatch(ev.wd)
    /\ Paired /\ findWatch(nextEv.wd)
    /\ rewriteCachedPaths(fullPath(ev.wd, ev.name), fullPath(nextEv.wd, nextEv.name))
    /\ buf' = Tail(Tail(buf)) /\ firstTry' = TRUE
    /\ UNCHANGED <<fs, inotify, rootDirPaths, walk, main>>
    /\ Continue

processRenameStale ==
    /\ Processing({"MOVED_FROM"}) /\ findWatch(ev.wd)
    /\ Paired /\ ~findWatch(nextEv.wd)
    /\ reinitialize(rootDirPaths)
    /\ UNCHANGED <<fs, main>>
    /\ Continue

(* Without it the directory was moved out. *)
MovedOut ==
    /\ Processing({"MOVED_FROM"}) /\ findWatch(ev.wd)
    /\ ~Paired /\ (Len(buf) > 1 \/ ~firstTry)

processMovedOut ==
    /\ MovedOut /\ CanZap(fullPath(ev.wd, ev.name))
    /\ zapSubtree(fullPath(ev.wd, ev.name))
    /\ buf' = Tail(buf) /\ firstTry' = TRUE
    /\ UNCHANGED <<fs, rootDirPaths, walk, main>>
    /\ Continue

processMovedOutFails ==
    /\ MovedOut /\ ~CanZap(fullPath(ev.wd, ev.name))
    /\ reinitialize(rootDirPaths)
    /\ UNCHANGED <<fs, main>>
    /\ Continue

(* Mutant: firstTry is not cleared. *)
processHangingAgain ==
    /\ Processing({"MOVED_FROM"}) /\ findWatch(ev.wd)
    /\ Len(buf) = 1 /\ firstTry
    /\ pc' = "reread"
    /\ UNCHANGED <<fs, inotify, cache, rootDirPaths, buf, firstTry, walk, main>>

(* At the end of the buffer its MOVED_TO may still come: read() again. *)
processHanging ==
    /\ Processing({"MOVED_FROM"}) /\ findWatch(ev.wd)
    /\ Len(buf) = 1 /\ firstTry
    /\ pc' = "reread" /\ firstTry' = FALSE
    /\ UNCHANGED <<fs, inotify, cache, rootDirPaths, buf, walk, main>>

(* The root was moved: it is not monitored any longer. *)
RootMoved == Processing({"MOVE_SELF"}) /\ RootGone /\ zapRootDirPath(cache[ev.wd]) # {}

processMoveSelf ==
    /\ RootMoved /\ CanZap(cache[ev.wd])
    /\ rootDirPaths' = zapRootDirPath(cache[ev.wd])
    /\ zapSubtree(cache[ev.wd])
    /\ buf' = Tail(buf) /\ firstTry' = TRUE
    /\ UNCHANGED <<fs, walk, main>>
    /\ Continue

processMoveSelfFails ==
    /\ RootMoved /\ ~CanZap(cache[ev.wd])
    /\ reinitialize(zapRootDirPath(cache[ev.wd]))
    /\ UNCHANGED <<fs, main>>
    /\ Continue

-----------------------------------------------------------------------------
(* processInotifyEvents(). *)

read ==
    /\ pc = "read" /\ queue # <<>>
    /\ LET n == Min({ReadMax, Len(queue)})
       IN  buf' = SubSeq(queue, 1, n) /\ queue' = SubSeq(queue, n + 1, Len(queue))
    /\ firstTry' = TRUE /\ pc' = "process" /\ ready' = FALSE
    /\ UNCHANGED <<fs, watch, moveSelf, nextWd, cache, rootDirPaths, walk, cmds, pace>>

(* The second read(): more events, or a timeout when there are none. *)
reread ==
    /\ pc = "reread"
    /\ buf' = buf \o queue /\ queue' = <<>>
    /\ pc' = "process"
    /\ UNCHANGED <<fs, watch, moveSelf, nextWd, cache, rootDirPaths, firstTry, walk, main>>

-----------------------------------------------------------------------------
(* main() and executeCommand(). *)

(* Nothing is in flight and the program waits in select(). *)
AtRest == pc = "select" /\ queue = <<>> /\ \A p \in Proc : pend[p] = <<>>

Paced == /\ ops + cmds < MaxOps
         /\ pace = "settled" => AtRest
         /\ pace = "between" => pc \notin {"visit", "open", "watch", "list"}

select ==
    /\ pc = "select" /\ queue # <<>>
    /\ pc' = "read" /\ ready' = TRUE
    /\ UNCHANGED <<fs, inotify, cache, rootDirPaths, buf, firstTry, walk, cmds, pace>>

(* select() returns for a command; events that are there already are read  *)
(* after it.                                                               *)
executeCommand ==
    /\ pc = "select" /\ Paced
    /\ cmds' = cmds + 1 /\ ready' = (queue # <<>>)
    /\ UNCHANGED <<fs, pace>>

(* Paths a user may type. *)
Argument == {<<r>> : r \in Root} \cup {<<r, n>> : r \in Root, n \in Name}

(* 0: rebuild the cache. *)
commandRebuild ==
    /\ executeCommand
    /\ reinitialize(rootDirPaths)
    /\ Continue

(* a: refresh a subtree; that zapSubtree() failed is not looked at. *)
commandAdd(path) ==
    /\ executeCommand
    /\ (CanZap(path) /\ zapSubtree(path)) \/ zapSubtreeFails(path)
    /\ todo' = watchSubtree(<<path>>)
    /\ UNCHANGED <<rootDirPaths, buf, firstTry, cur>>
    /\ Continue

(* z: stop watching a subtree. *)
commandZap(path) ==
    /\ executeCommand /\ pace # "settled"
    /\ (CanZap(path) /\ zapSubtree(path)) \/ zapSubtreeFails(path)
    /\ UNCHANGED <<rootDirPaths, buf, firstTry, walk>>
    /\ Continue

(* q, or the end of the input. *)
commandQuit ==
    /\ executeCommand
    /\ pc' = "exit"
    /\ UNCHANGED <<inotify, cache, rootDirPaths, buf, firstTry, walk>>

Command == \/ commandRebuild \/ commandQuit
           \/ \E path \in Argument : commandAdd(path) \/ commandZap(path)

Init ==
    /\ FsInit
    /\ cache = <<>> /\ rootDirPaths = Root
    /\ LET r == SetToSeq(Root) IN todo = watchSubtree([i \in DOMAIN r |-> <<r[i]>>])
    /\ pc = "visit" /\ buf = <<>> /\ firstTry = TRUE /\ cur = NoVisit
    /\ ready = FALSE /\ cmds = 0 /\ pace \in Pace

Program ==
    \/ VisitNothing \/ VisitStat \/ VisitOpen \/ VisitAbort
    \/ traverseTreeFails \/ traverseTree \/ VisitList
    \/ processStale \/ processOverflow \/ processIgnored \/ processCreate
    \/ processDeleteSelf \/ processRename \/ processRenameStale
    \/ processMovedOut \/ processMovedOutFails \/ processHanging
    \/ processMoveSelf \/ processMoveSelfFails \/ exitNoRoots
    \/ select \/ read \/ reread

Delivery(p) == Deliver(p) /\ UNCHANGED prog

Next == \/ Program
        \/ Command
        \/ \E p \in Proc : Paced /\ FsStep(p) /\ UNCHANGED prog
        \/ \E p \in Proc : Delivery(p)

Fairness == WF_vars(Program) /\ \A p \in Proc : WF_vars(Delivery(p))

Spec == Init /\ [][Next]_vars /\ Fairness

-----------------------------------------------------------------------------
Directory == Dir \cup {Free}
Path == Seq(Root \cup Name)
Events == [wd : 0 .. nextWd, kind : STRING, name : Name \cup {Free}, cookie : 0 .. MaxOps]

(* Types; nftw() has paths to visit while it walks, there is an event in   *)
(* the buffer while one is processed, and only a MOVED_FROM that is alone  *)
(* in the buffer is put off (firstTry).                                    *)
TypeOK ==
    /\ pace \in Pace /\ ready \in BOOLEAN /\ firstTry \in BOOLEAN
    /\ pc \in {"visit", "open", "watch", "list", "process", "reread", "read", "select", "exit"}
    /\ rootDirPaths \subseteq Root
    /\ DOMAIN cache \subseteq 1 .. nextWd - 1 /\ \A w \in DOMAIN cache : cache[w] \in Path
    /\ DOMAIN watch \subseteq 1 .. nextWd - 1 /\ \A w \in DOMAIN watch : watch[w] \in Dir
    /\ moveSelf \subseteq DOMAIN watch
    /\ \A e \in Range(buf) \cup Range(queue) : e \in Events
    /\ Len(queue) <= QMax + 1
    /\ \A t \in Range(todo) : t.path \in Path
    /\ cur.path \in Path /\ cur.dir \in Directory
    /\ pc \in {"visit", "open"} => todo # <<>>
    /\ pc \in {"process", "reread"} => buf # <<>>
    /\ pc = "reread" => Len(buf) = 1 /\ ev.kind = "MOVED_FROM"

Monitored(d) == Top \in Above(d) /\ Above(d) \cap rootDirPaths # {}

(* Every cached path leads to the directory that is watched, and every     *)
(* directory of a monitored tree is in the cache.                          *)
Consistent ==
    /\ \A w \in DOMAIN cache : w \in DOMAIN watch /\ resolve(cache[w]) = watch[w]
    /\ \A d \in Dir : Monitored(d) => \E w \in DOMAIN cache : watch[w] = d

(* If the tree changes only while the program is at rest, then the cache   *)
(* is right whenever it is at rest again: the events of every single call  *)
(* (mkdir, rmdir, a rename within the trees, out of them or into them, of  *)
(* a whole subtree, a root that goes away) and the commands 0 and a are    *)
(* handled completely.                                                     *)
SettledConsistent == pace = "settled" /\ AtRest => Consistent

(* However the changes, the walk and the events overlap: no watch is left  *)
(* without a cache entry, so an event never comes from a watch the program *)
(* made and then lost, which would cost a rebuild of the cache each time.  *)
WatchesCached == DOMAIN watch \subseteq DOMAIN cache

InFlight(e) == e \in Range(buf) \cup Range(queue)

(* And an entry whose watch is gone is only there until the DELETE_SELF,   *)
(* or the OVERFLOW, that removes it is processed.  The program that exits  *)
(* leaves its cache as it is.                                              *)
DeadEntriesKnown ==
    \A w \in DOMAIN cache \ DOMAIN watch :
        InFlight(Event(w, "DELETE_SELF", Free, 0)) \/ InFlight(OVERFLOW) \/ pc = "exit"

(* When the changes stop, the program stops too: it does not rebuild its   *)
(* cache again and again, and does not wait for ever for the MOVED_TO of a *)
(* MOVED_FROM.  It ends in select(), or in the read() after a command 0.   *)
Settles == <>[](\/ pc = "exit"
                \/ pc \in {"select", "read"} /\ queue = <<>>)

(* processInotifyEvents() processes the events "in order to keep our       *)
(* cached view of the subtree in sync with the filesystem": at rest the    *)
(* cache is right, however fast one process changes the tree between the   *)
(* walks of nftw(), as long as no command (z, say) meddles with it.        *)
ConsistentAtRest == AtRest /\ pace # "free" /\ cmds = 0 => Consistent

=============================================================================
