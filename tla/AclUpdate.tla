----------------------------- MODULE AclUpdate -----------------------------
(***************************************************************************)
(* acl_update changes the access control lists of files, an entry at a     *)
(* time: after each entry of its argument it recalculates the mask, tests  *)
(* the list and stores it, and an error ends the program at once.          *)
(*                                                                         *)
(* A list is a function from the tags (with qualifier) of its entries to   *)
(* permissions: u, g and o for the owner, the group and others, m for the  *)
(* mask, and u1 for a named user, for which a named group would be the     *)
(* same.  The empty function is the list a file without default has.       *)
(***************************************************************************)
EXTENDS ToolParams, Sequences

Required == {"u", "g", "o"}
Tag == Required \cup {"m", "u1"}
GroupClass == {"g", "u1"}
Perms == SUBSET {"r", "w"}
NoPerms == {"none"}    \* an entry without permissions
Type == {"access", "default"}
File == 1 .. NumFiles

VARIABLES
    opt, recalcMask, useDefaultACL,  \* the options
    aclist,      \* the entries of its argument
    lpc,
    fileAcl,     \* the lists of each file
    acl,         \* the list in memory
    fno, en,     \* the file, and the entries already applied to it
    orig         \* history: the lists of the files at the beginning
aclVars == <<opt, recalcMask, useDefaultACL, aclist, lpc, fileAcl, acl, fno, en, orig>>
options == <<opt, recalcMask, useDefaultACL, aclist, orig>>

type == IF useDefaultACL THEN "default" ELSE "access"

-----------------------------------------------------------------------------
(* libacl *)

Without(a, t) == [x \in DOMAIN a \ {t} |-> a[x]]
With(a, t, p) == [x \in DOMAIN a \cup {t} |-> IF x = t THEN p ELSE a[x]]

acl_calc_mask(a) == With(a, "m", UNION {a[t] : t \in DOMAIN a \cap GroupClass})

acl_valid(a) == Required \subseteq DOMAIN a /\ ("u1" \in DOMAIN a => "m" \in DOMAIN a)

-----------------------------------------------------------------------------
(* An entry has a known tag, and permissions exactly if they are required. *)
parseEntrySpec(e, permsReqd) == e.tag \in Tag /\ (permsReqd <=> e.perms # NoPerms)

parseACL(list, permsReqd) ==
    /\ Len(list) <= MAX_ENTRIES
    /\ \A i \in DOMAIN list : parseEntrySpec(list[i], permsReqd)

(* The options, of which there must be exactly one of m, x, k and V, and   *)
(* the parse of the list.  -V only parses.                                 *)
Options ==
    /\ lpc = "options"
    /\ LET usage == opt \notin {"m", "x", "k", "V"} \/ (opt = "V" /\ useDefaultACL)
           parsed == opt = "k" \/ parseACL(aclist, opt \in {"m", "V"})
       IN  lpc' = IF usage \/ ~parsed THEN "failed"
                  ELSE IF opt = "V" THEN "success" ELSE "file"
    /\ UNCHANGED <<options, fileAcl, acl, fno, en>>

(* The loop over the files *)
Finish ==
    /\ lpc = "file" /\ fno > NumFiles /\ lpc' = "success"
    /\ UNCHANGED <<options, fileAcl, acl, fno, en>>

DeleteDefault ==
    /\ lpc = "file" /\ fno <= NumFiles /\ opt = "k"
    /\ fileAcl' = [fileAcl EXCEPT ![fno]["default"] = <<>>]
    /\ fno' = fno + 1
    /\ UNCHANGED <<options, lpc, acl, en>>

GetFile ==
    /\ lpc = "file" /\ fno <= NumFiles /\ opt # "k"
    /\ acl' = fileAcl[fno][type] /\ lpc' = "entry"
    /\ UNCHANGED <<options, fileAcl, fno, en>>

(* Mutant: a new entry only; the permissions of an old one stay. *)
AppliedOnce(a, e) ==
    IF opt = "x" THEN Without(a, e.tag)
    ELSE IF e.tag \in DOMAIN a THEN a ELSE With(a, e.tag, e.perms)

(* findEntry(), then the entry is deleted, or created and setPerms() *)
Applied(a, e) == IF opt = "x" THEN Without(a, e.tag) ELSE With(a, e.tag, e.perms)

(* Mutant: stores the list without testing it. *)
EntryUntested ==
    /\ lpc = "entry" /\ en < Len(aclist)
    /\ LET a == Applied(acl, aclist[en + 1])
           b == IF recalcMask THEN acl_calc_mask(a) ELSE a
       IN  /\ acl' = b /\ en' = en + 1
           /\ fileAcl' = [fileAcl EXCEPT ![fno][type] = b]
    /\ UNCHANGED <<options, lpc, fno>>

(* One entry: applied, the mask recalculated, tested and stored *)
Entry ==
    /\ lpc = "entry" /\ en < Len(aclist)
    /\ LET a == Applied(acl, aclist[en + 1])
           b == IF recalcMask THEN acl_calc_mask(a) ELSE a
       IN  /\ acl' = b
           /\ IF acl_valid(b)
              THEN /\ fileAcl' = [fileAcl EXCEPT ![fno][type] = b]
                   /\ en' = en + 1 /\ lpc' = lpc
              ELSE lpc' = "failed" /\ UNCHANGED <<fileAcl, en>>
    /\ UNCHANGED <<options, fno>>

FileDone ==
    /\ lpc = "entry" /\ en = Len(aclist)
    /\ lpc' = "file" /\ fno' = fno + 1 /\ en' = 0
    /\ UNCHANGED <<options, fileAcl, acl>>

(* A call of libacl fails: errExit() *)
Fail ==
    /\ lpc \in {"file", "entry"} /\ (lpc = "file" => fno <= NumFiles)
    /\ lpc' = "failed"
    /\ UNCHANGED <<options, fileAcl, acl, fno, en>>

-----------------------------------------------------------------------------
EntrySpec == [tag : Tag \cup {"bad"}, perms : {NoPerms, {}, {"r"}, {"w"}}]
Lists == (UNION {[1 .. n -> EntrySpec] : n \in 1 .. MAX_ENTRIES})
         \cup {[i \in 1 .. MAX_ENTRIES + 1 |-> e] : e \in EntrySpec}

AnyList == <<[tag |-> "u", perms |-> {}]>>

Minimal == [t \in Required |-> {"r"}]
Extended == [t \in Tag |-> IF t = "o" THEN {} ELSE {"r"}]

Init ==
    /\ opt \in {"m", "x", "k", "V", "several"}
    /\ recalcMask \in BOOLEAN /\ useDefaultACL \in BOOLEAN
    /\ aclist \in Lists /\ (opt \in {"k", "several"} => aclist = AnyList)
    /\ orig \in {[f \in File |-> [access |-> a, default |-> d]] :
                    a \in {Minimal, Extended}, d \in {<<>>, Minimal}}
    /\ fileAcl = orig /\ acl = <<>> /\ fno = 1 /\ en = 0 /\ lpc = "options"

Next == Options \/ Finish \/ DeleteDefault \/ GetFile \/ Entry \/ FileDone \/ Fail
Spec == Init /\ [][Next]_aclVars

-----------------------------------------------------------------------------
(* No file is ever left with a list that is not valid, wherever the        *)
(* program stops.  As every single entry must leave a valid list, a file   *)
(* without a default list never gets one, not even from a list of entries  *)
(* that would be complete.                                                 *)
AclsValid ==
    \A f \in File :
        /\ acl_valid(fileAcl[f]["access"])
        /\ fileAcl[f]["default"] = <<>> \/ acl_valid(fileAcl[f]["default"])
        /\ orig[f]["default"] = <<>> => fileAcl[f]["default"] = <<>>

(* The entries among the first n with tag t, of which the last one counts. *)
For(t, n) == {i \in 1 .. n : aclist[i].tag = t}
Given(t, n) == aclist[CHOOSE i \in For(t, n) : \A k \in For(t, n) : k <= i].perms

(* The list a file should have after the first n entries, entry by entry;  *)
(* a recalculated mask is the union of the group class, whatever the       *)
(* entries say of the mask.                                                *)
Tags(old, n) == IF opt = "x" THEN {t \in DOMAIN old : For(t, n) = {}}
                ELSE DOMAIN old \cup {t \in Tag : For(t, n) # {}}
Plain(old, n) == [t \in Tags(old, n) |-> IF For(t, n) = {} THEN old[t] ELSE Given(t, n)]
Expected(old, n) ==
    IF n = 0 \/ ~recalcMask THEN Plain(old, n)
    ELSE [t \in Tags(old, n) \cup {"m"} |->
            IF t = "m" THEN UNION {Plain(old, n)[g] : g \in Tags(old, n) \cap GroupClass}
            ELSE Plain(old, n)[t]]

(* Files before the current one have all entries, the current one those    *)
(* applied so far, the others none, and a list of the other type never     *)
(* changes; a success has done all files.                                  *)
AclPrefix ==
    opt \in {"m", "x"} =>
      /\ \A f \in File : \A y \in Type :
           fileAcl[f][y] =
             IF y # type \/ f > fno THEN orig[f][y]
             ELSE Expected(orig[f][y], IF f < fno THEN Len(aclist) ELSE en)
      /\ lpc = "success" => fno > NumFiles
=============================================================================
