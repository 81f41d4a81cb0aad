------------------------------ MODULE TaskFiles ------------------------------
(* The files of a task's repository as the local API lets browser tabs read, *)
(* save, copy, move, rename, delete and commit them                          *)
(* (cli/internal/localapi/routes_addon.go).  Every request is a handler of   *)
(* its own; nothing locks the tree, so a handler's system calls interleave   *)
(* with those of other handlers and with an editor outside the program.      *)
(*                                                                           *)
(* A text is the set of its lines, a line is named after who wrote it: a     *)
(* file starts with the line of its own name, request r adds line r, the     *)
(* outside editor adds "outside".  Modification times are named the same     *)
(* way; only their equality is used.  An inode is named after its creator,   *)
(* so that a write reaches the file that was opened, wherever it is by then. *)
EXTENDS Naturals, Sequences, SequencesExt, FiniteSets

CONSTANTS Request,      \* the requests, each made at most once
          Path,         \* paths below the repository root, as sequences of names
          InitialDir,   \* the paths that are directories at first
          InitialFile,  \* the paths that are files at first
          MaxTransfers, \* bound: copies, moves and renames
          MaxFaults     \* bound: failing writes and crashes

ASSUME TaskFilesAssumption ==
    /\ Path \subseteq Seq(STRING)
    /\ \A p \in Path : p # << >> /\ \A n \in 1..Len(p) : SubSeq(p, 1, n) \in Path
    /\ InitialDir \subseteq Path /\ InitialFile \subseteq Path
    /\ InitialDir \cap InitialFile = {}
    /\ \A p \in InitialDir \cup InitialFile, q \in Path : IsStrictPrefix(q, p) => q \in InitialDir
    /\ \A p, q \in InitialFile : p[Len(p)] = q[Len(q)] => p = q
    /\ \A p \in Path : p[Len(p)] \notin Request
    /\ MaxTransfers \in Nat /\ MaxFaults \in Nat

VARIABLES fs,        \* the working tree
          req,       \* the handlers' local variables
          seen,      \* what tabs were told: a path, its revision and its text
          staged,    \* the index of git
          head,      \* the tree of the last commit
          edited,    \* the outside editor has saved its line
          transfers, faults,
          gone,      \* ghost: lines whose loss was asked for or is a known window
          committed, \* ghost: lines some commit holds
          passed     \* ghost: lines git add passed over, a save having cut their file

vars == <<fs, req, seen, staged, head, edited, transfers, faults, gone, committed, passed>>

Outside == "outside"
Name    == {p[Len(p)] : p \in Path}
Line    == Request \cup {Outside} \cup Name

----------------------------------------------------------------------------
(* The file system. *)

None == [kind |-> "none"]
Dir  == [kind |-> "dir"]
File(ino, mtime, text) == [kind |-> "file", ino |-> ino, mtime |-> mtime, text |-> text]

Exists(p)    == fs[p].kind # "none"
IsFile(p)    == fs[p].kind = "file"
Below(p)     == {q \in Path : IsPrefix(p, q)}
Ancestors(p) == {q \in Path : IsStrictPrefix(q, p)}
InDirs(p)    == \A q \in Ancestors(p) : fs[q] = Dir
Text(p)      == IF IsFile(p) THEN fs[p].text ELSE {}
TextBelow(p) == UNION {Text(q) : q \in Below(p)}
Opened(ino)  == {p \in Path : IsFile(p) /\ fs[p].ino = ino}

RemoveAll(tree, p) == [q \in Path |-> IF q \in Below(p) THEN None ELSE tree[q]]
CanMkdir(p)        == \A q \in Ancestors(p) : ~IsFile(q)
MkdirAll(tree, p)  == [q \in Path |-> IF q \in Ancestors(p) THEN Dir ELSE tree[q]]

(* os.Rename: never onto a directory, never a directory onto a file or into *)
(* itself; what lies below the source goes with it (a tree that would be    *)
(* deeper than Path fails as a path that is too long does).                 *)
(* Mutant: the source keeps its name.                                       *)
Moved(from, to, q) == to \o SubSeq(q, Len(from) + 1, Len(q))
CanRename(tree, from, to) ==
    /\ tree[from] # None /\ tree[to] # Dir /\ ~IsStrictPrefix(from, to)
    /\ \A q \in Ancestors(to) : tree[q] = Dir
    /\ tree[to] # None => tree[from] # Dir
    /\ \A q \in Below(from) : tree[q] # None => Moved(from, to, q) \in Path
Renamed_SourceStays(tree, from, to) ==
    [p \in Path |->
        IF \E q \in Below(from) : Moved(from, to, q) = p /\ tree[q] # None
        THEN tree[CHOOSE q \in Below(from) : Moved(from, to, q) = p] ELSE tree[p]]
Renamed(tree, from, to) ==
    [p \in Path |->
        IF p \in Below(to) THEN LET from_ == {q \in Below(from) : Moved(from, to, q) = p}
                                IN  IF from_ = {} THEN None ELSE tree[CHOOSE q \in from_ : TRUE]
        ELSE IF p \in Below(from) THEN None ELSE tree[p]]

(* taskFileRevision: modification time, size and hash.  Size and hash tell  *)
(* what the text tells.                                                     *)
NoRev == [mtime |-> "0", text |-> {}]
Mtime(p) == CASE IsFile(p) -> fs[p].mtime [] fs[p] = Dir -> "dir" [] OTHER -> "0"
Revision(p, data) == [mtime |-> Mtime(p), text |-> data]

(* Mutant: only the modification time is compared. *)
RevisionEquals_Mtime(a, b) == a.mtime = b.mtime
RevisionEquals(a, b)       == a.mtime = b.mtime /\ a.text = b.text

Tree == {<<p, fs[p].text>> : p \in {q \in Path : IsFile(q)}}
LinesOf(tree) == UNION {t[2] : t \in tree}

----------------------------------------------------------------------------
(* A request.  text is what a save brings: the whole content, or the lines  *)
(* a patch expects around its own; data is what the handler read, next what *)
(* it will write; checked is the target's text when it was looked at; ino   *)
(* tells whether a file was found, then which one was opened.               *)
Idle == [pc |-> "idle", op |-> "none", path |-> << >>, to |-> << >>, flag |-> FALSE,
         rev |-> NoRev, text |-> {}, data |-> {}, next |-> {}, checked |-> {},
         ino |-> "0", answer |-> "none"]

Init ==
    /\ fs = [p \in Path |-> LET n == p[Len(p)]
                            IN  CASE p \in InitialFile -> File(n, n, {n})
                                  [] p \in InitialDir  -> Dir
                                  [] OTHER             -> None]
    /\ req = [r \in Request |-> Idle]
    /\ seen = {[path |-> p, rev |-> Revision(p, Text(p)), text |-> Text(p)] : p \in InitialFile}
    /\ staged = Tree /\ head = Tree
    /\ edited = FALSE /\ transfers = 0 /\ faults = 0
    /\ gone = {} /\ committed = LinesOf(Tree) /\ passed = {}

At(r, op, pc)      == req[r].op = op /\ req[r].pc = pc
To(r, pc)          == req' = [req EXCEPT ![r].pc = pc]
Answer(r, a)       == req' = [req EXCEPT ![r] = [Idle EXCEPT !.pc = "done", !.answer = a,
                                                    !.op = req[r].op]]
Told(p, rev, text) == seen' = seen \cup {[path |-> p, rev |-> rev, text |-> text]}
Lose(lines)        == gone' = gone \cup lines

others == <<edited, staged, head, committed, passed>>

----------------------------------------------------------------------------
(* Requests arrive.  A tab saves with a revision it was told, or creates a  *)
(* file it takes for missing; a patch may be older than the revision (made  *)
(* of an earlier text, sent again after a conflict).  A rename gives a new  *)
(* name in the same directory.                                              *)
Begin(r, q) ==
    /\ req[r].pc = "idle"
    /\ req' = [req EXCEPT ![r] = q]
    /\ UNCHANGED <<fs, seen, faults, gone, others>>

StartGet(r, p) ==
    /\ Begin(r, [Idle EXCEPT !.op = "get", !.pc = "read", !.path = p])
    /\ UNCHANGED transfers

StartContent(r, s, create) ==
    /\ Begin(r, [Idle EXCEPT !.op = "content", !.pc = "read", !.path = s.path,
                             !.flag = create, !.rev = s.rev, !.text = s.text \cup {r}])
    /\ UNCHANGED transfers
StartPatch(r, s, t, create) ==
    /\ s.path = t.path
    /\ Begin(r, [Idle EXCEPT !.op = "patch", !.pc = "read", !.path = s.path,
                             !.flag = create, !.rev = s.rev, !.text = t.text])
    /\ UNCHANGED transfers

StartTransfer(r, op, from, to, over) ==
    /\ transfers < MaxTransfers
    /\ Begin(r, [Idle EXCEPT !.op = op, !.pc = "stat", !.path = from, !.to = to, !.flag = over])
    /\ transfers' = transfers + 1

StartRename(r, from, to, over) ==
    Front(from) = Front(to) /\ StartTransfer(r, "rename", from, to, over)

StartDelete(r, p) ==
    /\ Begin(r, [Idle EXCEPT !.op = "delete", !.pc = "remove", !.path = p])
    /\ UNCHANGED transfers
StartCommit(r) ==
    /\ Begin(r, [Idle EXCEPT !.op = "commit", !.pc = "status"])
    /\ UNCHANGED transfers

Start(r) ==
    \/ \E p \in Path : StartGet(r, p) \/ StartDelete(r, p)
    \/ \E s \in seen \cup {[path |-> p, rev |-> NoRev, text |-> {}] : p \in Path}, c \in BOOLEAN :
           StartContent(r, s, c) \/ \E t \in seen : StartPatch(r, s, t, c)
    \/ \E p, t \in Path, o \in BOOLEAN :
           StartTransfer(r, "copy", p, t, o) \/ StartTransfer(r, "move", p, t, o)
              \/ StartRename(r, p, t, o)
    \/ StartCommit(r)

----------------------------------------------------------------------------
(* handleGetTaskFileContent and handlePatchTaskFileContent                   *)

Save == {"content", "patch"}

(* What a save that has cut its file is about to write back. *)
Unwritten(r) == IF req[r].op \in Save /\ req[r].pc = "write" THEN req[r].next ELSE {}
InFlight     == UNION {Unwritten(r) : r \in Request}

(* os.ReadFile, of a read, of a save and of the answer to a save.  A missing *)
(* file is an error unless the save may create it.                           *)
ReadFile(r) ==
    /\ req[r].pc \in {"read", "reread"}
    /\ LET p == req[r].path
           creates == req[r].op \in Save /\ req[r].pc = "read" /\ req[r].flag
       IN  IF IsFile(p) \/ (~Exists(p) /\ creates)
           THEN req' = [req EXCEPT ![r].data = Text(p), ![r].next = Text(p),
                                   ![r].ino = IF IsFile(p) THEN "found" ELSE "missing",
                                   ![r].pc = IF @ = "reread" \/ req[r].op = "get"
                                             THEN "tell" ELSE "check"]
           ELSE Answer(r, IF Exists(p) \/ req[r].pc = "reread" THEN "failed" ELSE "refused")
    /\ UNCHANGED <<fs, seen, transfers, faults, gone, others>>

(* The revision is taken from the path when it is told, after the read. *)
TellRevision(r) ==
    /\ req[r].pc = "tell"
    /\ Told(req[r].path, Revision(req[r].path, req[r].data), req[r].data)
    /\ Answer(r, "ok")
    /\ UNCHANGED <<fs, transfers, faults, gone, others>>

(* applyUnifiedPatchText: the lines a hunk names must be there. *)
PatchApplies(data, context) == context \subseteq data
Applied(r) == IF req[r].op = "content" THEN req[r].text ELSE req[r].data \cup {r}

CheckRevision(r) ==
    /\ req[r].op \in Save /\ req[r].pc = "check"
    /\ LET p   == req[r].path
           rev == IF req[r].ino = "found" THEN Revision(p, req[r].data) ELSE NoRev
       IN  IF ~RevisionEquals(rev, req[r].rev)
           THEN Told(p, rev, req[r].data) /\ Answer(r, "conflict") /\ UNCHANGED fs
           ELSE /\ UNCHANGED seen
                /\ IF req[r].op = "patch" /\ ~PatchApplies(req[r].data, req[r].text)
                   THEN Answer(r, "refused") /\ UNCHANGED fs
                   ELSE IF ~CanMkdir(p) THEN Answer(r, "failed") /\ UNCHANGED fs
                   ELSE /\ fs' = MkdirAll(fs, p)
                        /\ req' = [req EXCEPT ![r].pc = "open", ![r].next = Applied(r)]
    /\ UNCHANGED <<transfers, faults, gone, others>>

(* The first half of os.WriteFile, of a save and of a copy: the file is     *)
(* opened, made if missing, and cut to nothing.  What it held and the       *)
(* handler had not looked at is the known window of both.                   *)
Destination(r) == IF req[r].op = "copy" THEN req[r].to ELSE req[r].path
OpenTruncate(r) ==
    /\ req[r].pc = "open"
    /\ LET p == Destination(r)
       IN  IF fs[p] = Dir \/ ~InDirs(p)
           THEN Answer(r, "failed") /\ UNCHANGED <<fs, gone>>
           ELSE LET ino == IF IsFile(p) THEN fs[p].ino ELSE r
                IN  /\ fs' = [fs EXCEPT ![p] = File(ino, r, {})]
                    /\ req' = [req EXCEPT ![r].pc = "write", ![r].ino = ino]
                    /\ Lose(Text(p) \ (IF req[r].op = "copy" THEN req[r].checked
                                                           ELSE req[r].data))
    /\ UNCHANGED <<seen, transfers, faults, others>>

(* The second half: the bytes go to the opened inode from its start, so a   *)
(* longer text written there meanwhile keeps its tail; an inode that was    *)
(* unlinked takes them with it.                                             *)
WriteText(r) ==
    /\ req[r].pc = "write"
    /\ LET ps == Opened(req[r].ino)
       IN  \/ /\ ps = {}
              /\ UNCHANGED fs
              /\ Lose(IF req[r].op \in Save THEN req[r].next ELSE {})
           \/ \E p \in ps, tail \in SUBSET Line :
                 /\ tail \subseteq Text(p) \ req[r].next
                 /\ fs' = [fs EXCEPT ![p] = File(@.ino, r, req[r].next \cup tail)]
                 /\ Lose(Text(p) \ (req[r].next \cup tail))
    /\ IF req[r].op \in Save THEN To(r, "reread") ELSE Answer(r, "ok")
    /\ UNCHANGED <<seen, transfers, faults, others>>

----------------------------------------------------------------------------
(* handlePostTaskFileCopy, Move, Rename and handleDeleteTaskFile            *)

Transferable(q) == Exists(q.path) /\ (q.op = "copy" => fs[q.path] # Dir)
(* A rename to the same name is done. *)
Unchanged(q)    == q.op = "rename" /\ q.path = q.to
StatSource(r) ==
    /\ req[r].pc = "stat"
    /\ IF ~Transferable(req[r]) THEN Answer(r, "refused")
       ELSE IF Unchanged(req[r]) THEN Answer(r, "ok")
       ELSE To(r, "ensure")
    /\ UNCHANGED <<fs, seen, transfers, faults, gone, others>>

TargetTaken(p, over) == ~over /\ Exists(p)

(* ensureTaskFileTargetAvailable: with overwrite the target is removed, all *)
(* of it, before the transfer is known to succeed.                          *)
EnsureTarget(r) ==
    /\ req[r].pc = "ensure"
    /\ LET q == req[r]
       IN  IF TargetTaken(q.to, q.flag) THEN Answer(r, "conflict") /\ UNCHANGED <<fs, gone>>
           ELSE IF q.flag
           THEN /\ fs' = RemoveAll(fs, q.to) /\ Lose(TextBelow(q.to))
                /\ To(r, "transfer")
           ELSE /\ req' = [req EXCEPT ![r].pc = "transfer", ![r].checked = TextBelow(q.to)]
                /\ UNCHANGED <<fs, gone>>
    /\ UNCHANGED <<seen, transfers, faults, others>>

CopySource(r) ==
    /\ At(r, "copy", "transfer")
    /\ LET q == req[r]
       IN  IF ~CanMkdir(q.to) THEN Answer(r, "failed") /\ UNCHANGED fs
           ELSE /\ fs' = MkdirAll(fs, q.to)
                /\ IF IsFile(q.path)
                   THEN req' = [req EXCEPT ![r].pc = "open", ![r].next = Text(q.path)]
                   ELSE Answer(r, "failed")
    /\ UNCHANGED <<seen, transfers, faults, gone, others>>

Rename(r) ==
    /\ At(r, "move", "transfer") \/ At(r, "rename", "transfer")
    /\ LET q    == req[r]
           made == IF q.op = "move" THEN MkdirAll(fs, q.to) ELSE fs
       IN  IF q.op = "move" /\ ~CanMkdir(q.to) THEN Answer(r, "failed") /\ UNCHANGED <<fs, gone>>
           ELSE IF q.path # q.to /\ CanRename(made, q.path, q.to)
           THEN /\ fs' = Renamed(made, q.path, q.to)
                /\ Lose(Text(q.to) \ q.checked)
                /\ Answer(r, "ok")
           ELSE Answer(r, "failed") /\ fs' = made /\ UNCHANGED gone
    /\ UNCHANGED <<seen, transfers, faults, others>>

Delete(r) ==
    /\ req[r].pc = "remove"
    /\ IF Exists(req[r].path)
       THEN fs' = RemoveAll(fs, req[r].path) /\ Lose(TextBelow(req[r].path)) /\ Answer(r, "ok")
       ELSE Answer(r, "refused") /\ UNCHANGED <<fs, gone>>
    /\ UNCHANGED <<seen, transfers, faults, others>>

----------------------------------------------------------------------------
(* handlePostTaskCommit: status, add -A, commit, rev-parse, each a process  *)
(* of git on the index every commit shares.                                 *)

GitStatus(r) ==
    /\ At(r, "commit", "status")
    /\ IF Tree = head /\ staged = head THEN Answer(r, "clean") ELSE To(r, "add")
    /\ UNCHANGED <<fs, seen, transfers, faults, gone, others>>

(* Mutant: only files git knows already are added (add -u). *)
Added_Tracked == {t \in Tree : \E known \in staged : known[1] = t[1]}
Added == Tree

GitAdd(r) ==
    /\ At(r, "commit", "add")
    /\ staged' = Added
    /\ req' = [req EXCEPT ![r].pc = "commit", ![r].data = LinesOf(Tree)]
    /\ passed' = passed \cup InFlight
    /\ UNCHANGED <<fs, seen, transfers, faults, gone, edited, head, committed>>

GitCommit(r) ==
    /\ At(r, "commit", "commit")
    /\ req' = [req EXCEPT ![r].pc = "done", ![r].answer = IF staged = head THEN "clean" ELSE "ok"]
    /\ head' = staged
    /\ committed' = committed \cup LinesOf(staged)
    /\ UNCHANGED <<fs, seen, transfers, faults, gone, edited, staged, passed>>

(* Another git holds the index, or a hook refuses. *)
GitFails(r) ==
    /\ req[r].op = "commit" /\ req[r].pc \in {"status", "add", "commit"}
    /\ Answer(r, "failed")
    /\ UNCHANGED <<fs, seen, transfers, faults, gone, others>>

----------------------------------------------------------------------------
(* Outside the program *)

(* An editor saves a line of its own, once. *)
EditOutside(p) ==
    /\ ~edited /\ IsFile(p)
    /\ edited' = TRUE
    /\ fs' = [fs EXCEPT ![p] = File(@.ino, Outside, @.text \cup {Outside})]
    /\ UNCHANGED <<req, seen, transfers, faults, gone, staged, head, committed, passed>>

(* A write fails with the file cut already (a full disk), or the process    *)
(* dies: what a save was about to write back is lost.                       *)
WriteFails(r) ==
    /\ req[r].pc = "write" /\ faults < MaxFaults
    /\ Lose(Unwritten(r)) /\ Answer(r, "failed")
    /\ faults' = faults + 1
    /\ UNCHANGED <<fs, seen, transfers, others>>
Crash ==
    /\ faults < MaxFaults
    /\ \E r \in Request : req[r].pc \notin {"idle", "done"}
    /\ Lose(InFlight)
    /\ req' = [r \in Request |-> IF req[r].pc \in {"idle", "done"} THEN req[r]
                                 ELSE [Idle EXCEPT !.pc = "done", !.answer = "failed"]]
    /\ faults' = faults + 1
    /\ UNCHANGED <<fs, seen, transfers, others>>

Next ==
    \/ \E r \in Request :
          \/ Start(r) \/ ReadFile(r) \/ TellRevision(r) \/ CheckRevision(r)
          \/ OpenTruncate(r) \/ WriteText(r) \/ StatSource(r) \/ EnsureTarget(r)
          \/ CopySource(r) \/ Rename(r) \/ Delete(r)
          \/ GitStatus(r) \/ GitAdd(r) \/ GitCommit(r) \/ GitFails(r) \/ WriteFails(r)
    \/ \E p \in Path : EditOutside(p)
    \/ Crash

Spec == Init /\ [][Next]_vars

----------------------------------------------------------------------------
Pc       == {"idle", "read", "check", "open", "write", "reread", "tell", "stat", "ensure",
             "transfer", "remove", "status", "add", "commit", "done"}
Transfer == {"copy", "move", "rename"}
Op       == {"none", "get", "delete", "commit"} \cup Save \cup Transfer
Stamp    == Line \cup {"0", "dir"}
Lines    == SUBSET Line
Entry    == {None, Dir} \cup [kind : {"file"}, ino : Line, mtime : Line, text : Lines]
RevState == [mtime : Stamp, text : Lines]
Handler  == [pc : Pc, op : Op, path : Path \cup {<< >>}, to : Path \cup {<< >>},
             flag : BOOLEAN, rev : RevState, text : Lines, data : Lines, next : Lines,
             checked : Lines, ino : Line \cup {"0", "found", "missing"},
             answer : {"none", "ok", "conflict", "refused", "failed", "clean"}]

(* Types; an inode has one name, wherever transfers put it, and a handler   *)
(* that writes holds one.                                                   *)
TypeOK ==
    /\ \A ino \in Line : Cardinality(Opened(ino)) <= 1
    /\ fs \in [Path -> Entry]
    /\ req \in [Request -> Handler]
    /\ \A r \in Request : req[r].pc = "write" => req[r].ino \in Line
    /\ seen \subseteq [path : Path, rev : RevState, text : Lines]
    /\ staged \subseteq Path \X Lines /\ head \subseteq Path \X Lines
    /\ edited \in BOOLEAN
    /\ transfers \in 0..MaxTransfers /\ faults \in 0..MaxFaults
    /\ gone \in Lines /\ committed \in Lines /\ passed \in Lines

(* The lines the program accounts for: in a file, about to be written back, or *)
(* lost in a way that is named.                                              *)
Held == LinesOf(Tree) \cup gone \cup InFlight

Kept == LinesOf({<<p, {p[Len(p)]}>> : p \in InitialFile})
        \cup (IF edited THEN {Outside} ELSE {})
        \cup {r \in Request : req[r].op \in Save /\ req[r].answer = "ok"}

(* A line is never lost behind its writer's back.  The lines the files      *)
(* began with, the outside editor's and those of every save answered with   *)
(* ok are in some file, or about to be written back by a save that has cut  *)
(* its file, unless they were deleted or overwritten at a request's wish,   *)
(* or fell into one of the windows the handlers leave open: between the     *)
(* check of a revision or a target and the write, between the two halves of *)
(* os.WriteFile, or in a file unlinked while it is written.                 *)
EditsKept ==
    Kept \subseteq Held

(* A commit that answers, be it ok or that there is nothing to commit,      *)
(* leaves no line behind that was in the tree when it added the tree: some  *)
(* commit holds it, its own or that of another request which took the       *)
(* shared index.  Unless it is gone, or the add of another commit replaced  *)
(* the index while a save had the line's file cut.                          *)
CommitHasAdded ==
    \A r \in Request :
        req[r].op = "commit" /\ req[r].answer \in {"ok", "clean"}
            => req[r].data \subseteq committed \cup gone \cup passed

----------------------------------------------------------------------------
(* What every step preserves, so that the properties above follow.          *)

(* What exists is below directories. *)
TreeShape == \A p \in Path : Exists(p) => InDirs(p)

(* Two names never share an inode, and one that a handler makes is made     *)
(* once, when it opens its file.                                            *)
InodesOnce ==
    /\ \A p, q \in Path : IsFile(p) /\ IsFile(q) /\ fs[p].ino = fs[q].ino => p = q
    /\ \A p \in Path, r \in Request :
          IsFile(p) /\ fs[p].ino = r => req[r].pc \in {"write", "reread", "tell", "done"}

(* What a handler holds at each of its steps.  Nothing is ever there when a *)
(* target was looked at and found free.                                     *)
HandlersInStep ==
    \A r \in Request :
        LET q == req[r]
        IN  /\ q.pc # "done" => q.answer = "none"
            /\ q.pc \in {"read", "check", "open", "write", "reread", "tell", "remove"}
                        \cup {"stat", "ensure", "transfer"} => q.path \in Path
            /\ q.pc \in {"stat", "ensure", "transfer"} => q.op \in Transfer
            /\ q.op \in Transfer /\ q.pc # "done" => q.to \in Path
            /\ q.pc \in {"read", "tell"} => q.op \in Save \cup {"get"}
            /\ q.pc \in {"check", "reread"} => q.op \in Save
            /\ q.pc = "remove" => q.op = "delete"
            /\ q.pc = "open" => q.op \in Save \cup {"copy"}
            /\ q.pc = "write" => q.ino \in Line
            /\ q.checked = {}

(* A save writes back every line it read, and its own: the revision it was  *)
(* given tells the text it was made of, and no other text passes the check. *)
SavesWriteBack ==
    /\ \A s \in seen : s.rev.text \subseteq s.text
    /\ \A r \in Request :
          LET q == req[r]
          IN  /\ q.op = "content" /\ q.pc \in {"read", "check"}
                     => q.rev.text \cup {r} \subseteq q.text
              /\ q.pc = "check" /\ q.ino # "found" => q.data = {}
              /\ q.op \in Save /\ q.pc = "open" => q.data \cup {r} \subseteq q.next
              /\ q.op \in Save /\ q.pc = "write" => r \in q.next
              /\ q.op \in Save /\ q.pc \in {"reread", "tell"} => r \in Held

(* Between its add and its commit, a commit's lines are held, and in the    *)
(* index unless the add of another passed them over.                        *)
AddedHeld ==
    \A r \in Request : At(r, "commit", "commit") =>
        /\ req[r].data \subseteq Held
        /\ req[r].data \subseteq LinesOf(staged) \cup gone \cup passed

FilesInv ==
    /\ TypeOK /\ TreeShape /\ InodesOnce /\ HandlersInStep /\ SavesWriteBack
    /\ AddedHeld /\ EditsKept /\ CommitHasAdded

=============================================================================
