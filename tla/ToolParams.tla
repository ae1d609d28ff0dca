----------------------------- MODULE ToolParams -----------------------------
(* The bounds of the programs that stand alone: those that work on files,  *)
(* and those that watch over a child.                                      *)
EXTENDS Naturals

CONSTANTS
    Writer,       \* atomic_append: the processes that write to the file
    numBytes,     \* and how often each does
    MaxLen,       \* copies: the longest file
    BufSize,      \* copies: BUF_SIZE, MAX_READ
    MAX_ENTRIES,  \* acl_update: entries of a list
    NumFiles,     \* acl_update: files it is given
    Instance,     \* createPidFile(): the processes that start the program
    Nobody,       \* no process: the lock is free, the file empty
    NumDirs,      \* seccomp_unotify_mkdir: directories the target makes
    MaxInts,      \* and SIGINTs it gets
    NetClient,    \* is_seqnum: the clients
    MaxReq        \* and the longest sequence they ask for

ASSUME BoundAssumption ==
    /\ numBytes \in Nat /\ MaxLen \in Nat /\ NumFiles \in Nat
    /\ BufSize \in Nat \ {0} /\ MAX_ENTRIES \in Nat \ {0}
    /\ NumDirs \in Nat /\ MaxInts \in Nat /\ MaxReq \in Nat
ASSUME NobodyAssumption == Nobody \notin Instance
=============================================================================
