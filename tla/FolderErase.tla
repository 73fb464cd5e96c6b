---------------------------- MODULE FolderErase -----------------------------
(***************************************************************************)
(* folder_erase: the recursive walk that erases the files below a          *)
(* directory and removes the directories it has emptied, beside a process  *)
(* that moves, creates, removes and writes files while it runs.            *)
(*                                                                         *)
(* Everything the walk does it does by path: a path names its node only as *)
(* long as every directory on it is still where the walk found it, or has  *)
(* been moved and a symbolic link to its new place left under its name:    *)
(* the kernel follows links in all components of a path but, for lstat(),  *)
(* rmdir() and O_NOFOLLOW, the last.  A directory may be mounted in a      *)
(* second place, below itself too.  Erasing one file is one step here;     *)
(* FileErase opens it up.                                                  *)
(***************************************************************************)
EXTENDS Naturals, Sequences, FiniteSets

CONSTANTS
  Outside,     \* the directory that holds the root of the walk
  Root,        \* dir_path
  Dirs,        \* directories, Outside and Root among them
  Files,       \* regular files
  Links,       \* symbolic links
  Specials,    \* devices, sockets and FIFOs
  Trees,       \* the initial contents of the directories
  Binds,       \* <<parent, directory>>: the name is a mount point
  Dev,         \* st_dev of each directory
  MaxSeen,     \* MAX_SEEN_INODES
  Depths,      \* the values of max_depth
  PassCounts,  \* the values of file_opts.passes
  MaxChanges   \* bound: changes made by the other process

Nodes == Dirs \cup Files \cup Links \cup Specials

ASSUME FolderParameters ==
  /\ {Outside, Root} \subseteq Dirs /\ Outside # Root
  /\ Files \cap Dirs = {}
  /\ Trees \subseteq [Dirs -> SUBSET Nodes]
  /\ \A tree \in Trees : Root \in tree[Outside]
  /\ Binds \subseteq Dirs \X Dirs
  /\ Depths \cup PassCounts \cup {MaxSeen, MaxChanges} \subseteq Nat

VARIABLES
  entries,   \* the nodes each directory names
  relinked,  \* <<directory, name>>: the name is a link to the moved directory
  content,   \* "data" or "erased", of each file
  touched,   \* nodes the other process has moved, created, removed or written
  changes,   \* how many times it has
  inside,    \* history: the files below the root when folder_erase was called
  phase,
  opts,      \* FolderEraseOptions
  stack,     \* the activations of folder_erase_recursive that read a directory
  at,        \* the entry the innermost one is working on, or "none"
  seen,      \* the inode table of the cycle detection
  result     \* FolderEraseResult

env == <<content, entries, relinked, touched, changes>>
walk == <<inside, phase, opts, stack, at, seen, result>>
dvars == <<env, walk>>

NoResult == [code |-> "none", processed |-> 0, succeeded |-> 0, failed |-> 0,
             dirs_removed |-> 0, symlinks_skipped |-> 0]

\* The nodes below a directory.
Below(d) ==
  {n \in Nodes : \A S \in SUBSET Nodes :
     (entries[d] \subseteq S /\ \A x \in S \cap Dirs : entries[x] \subseteq S) => n \in S}

-----------------------------------------------------------------------------
(* Paths. *)

\* The path of the directory of the k-th activation, and of a name in the
\* innermost one.
PathTo(k) == <<Outside>> \o [i \in 1 .. k |-> stack[i].dir]
PathOf(n) == Append(PathTo(Len(stack)), n)

IsLink(p, i) == <<p[i], p[i + 1]>> \in relinked

\* What a path leads to: when links are followed, as opendir() does; and when
\* the last component must not be one.
Leads(p) == \A i \in 1 .. Len(p) - 1 : p[i + 1] \in entries[p[i]] \/ IsLink(p, i)
Resolves(p) == Leads(p) /\ ~ IsLink(p, Len(p) - 1)

Names(d) == entries[d] \cup {n \in Dirs : <<d, n>> \in relinked}

CrossMount(d) == Dev[d] # Dev[Root]

Top == stack[Len(stack)]

-----------------------------------------------------------------------------
(* folder_erase and folder_erase_recursive. *)

\* What an inner activation returns is dropped; the outermost one's is the
\* result_code.
Return(st, code) ==
  /\ stack' = st
  /\ at' = "none"
  /\ IF st = <<>> THEN phase' = "done" /\ result' = [result EXCEPT !.code = code]
                  ELSE phase' = "read" /\ UNCHANGED result

Call(dangerous, o) ==
  /\ phase = "idle"
  /\ opts' = o
  /\ inside' = Below(Root) \cap Files
  /\ \/ /\ dangerous \/ Root \notin entries[Outside]
        /\ phase' = "done"
        /\ result' = [result EXCEPT !.code = IF dangerous THEN "DANGEROUS_PATH" ELSE "FAILED"]
        /\ UNCHANGED at
     \/ /\ ~ dangerous
        /\ Root \in entries[Outside]
        /\ phase' = "enter"
        /\ at' = Root
        /\ UNCHANGED result
  /\ UNCHANGED <<env, stack, seen>>

\* Mutant of Verdict: the walk crosses into mounted file systems.
VerdictMounts ==
  IF Len(stack) > opts.max_depth \/ ~ Resolves(PathOf(at)) THEN "FAILED"
  ELSE IF at \in seen THEN "CYCLE_DETECTED"
  ELSE "none"

\* Mutant of Verdict: the root is not among the directories seen.
VerdictReenters ==
  IF Len(stack) > opts.max_depth \/ ~ Resolves(PathOf(at)) THEN "FAILED"
  ELSE IF ~ opts.follow_mount /\ CrossMount(at) THEN "OK"
  ELSE IF at \in seen \ {Root} THEN "CYCLE_DETECTED"
  ELSE "none"

\* What the head of folder_erase_recursive makes of the directory: depth,
\* lstat(), the mount, the cycle.
Verdict ==
  IF Len(stack) > opts.max_depth \/ ~ Resolves(PathOf(at)) THEN "FAILED"
  ELSE IF ~ opts.follow_mount /\ CrossMount(at) THEN "OK"
  ELSE IF at \in seen THEN "CYCLE_DETECTED"
  ELSE "none"

Enter ==
  /\ phase = "enter"
  /\ \/ Verdict # "none" /\ Return(stack, Verdict) /\ UNCHANGED seen
     \/ /\ Verdict = "none"
        /\ seen' = IF Cardinality(seen) < MaxSeen THEN seen \cup {at} ELSE seen
        /\ phase' = "open"
        /\ UNCHANGED <<stack, at, result>>
  /\ UNCHANGED <<env, inside, opts>>

OpenDir ==
  /\ phase = "open"
  /\ \/ /\ Leads(PathOf(at))
        /\ stack' = Append(stack, [dir |-> at, listed |-> Names(at), done |-> {}])
        /\ at' = "none"
        /\ phase' = "read"
        /\ UNCHANGED result
     \/ Return(stack, "FAILED")
  /\ UNCHANGED <<env, inside, opts, seen>>

\* readdir() and lstat() of the entry.  What was put into the directory after
\* opendir() may be returned, what was taken from it too, but not found.
ReadEntry ==
  /\ phase = "read"
  /\ \E n \in (Top.listed \cup Names(Top.dir)) \ Top.done :
       /\ stack' = [stack EXCEPT ![Len(stack)].done = @ \cup {n}]
       /\ \/ /\ ~ Leads(PathOf(n)) \/ n \in Specials
             /\ UNCHANGED <<phase, at, result>>
          \/ /\ Leads(PathOf(n)) /\ (n \in Links \/ ~ Resolves(PathOf(n)))
             /\ result' = [result EXCEPT !.symlinks_skipped = @ + 1]
             /\ UNCHANGED <<phase, at>>
          \/ /\ Resolves(PathOf(n)) /\ n \in Files \cup Dirs
             /\ phase' = IF n \in Files THEN "file" ELSE "enter"
             /\ at' = n
             /\ UNCHANGED result
  /\ UNCHANGED <<env, inside, opts, seen>>

\* Mutant of EraseEntry: the file is unlinked whatever file_erase says.
EraseEntryUnlinks ==
  /\ phase = "file"
  /\ Resolves(PathOf(at))
  /\ \E x \in {content[at], "erased"} : content' = [content EXCEPT ![at] = x]
  /\ entries' = [entries EXCEPT ![Top.dir] = @ \ {at}]
  /\ result' = [result EXCEPT !.processed = @ + 1, !.succeeded = @ + 1]
  /\ phase' = "read"
  /\ at' = "none"
  /\ UNCHANGED <<relinked, touched, changes, inside, opts, stack, seen>>

\* file_erase of the entry.  When it succeeds every pass is complete, and the
\* file is unlinked unless that was not asked for or did not work; when it
\* fails the file is left, overwritten or not.
EraseEntry ==
  /\ phase = "file"
  /\ \/ /\ Resolves(PathOf(at))
        /\ content' = [content EXCEPT ![at] = IF opts.passes > 0 THEN "erased" ELSE @]
        /\ \/ opts.remove_file /\ entries' = [entries EXCEPT ![Top.dir] = @ \ {at}]
           \/ UNCHANGED entries
        /\ result' = [result EXCEPT !.processed = @ + 1, !.succeeded = @ + 1]
     \/ /\ \/ /\ Resolves(PathOf(at)) /\ opts.passes > 0
              /\ content' = [content EXCEPT ![at] = "erased"]
           \/ UNCHANGED content
        /\ result' = [result EXCEPT !.processed = @ + 1, !.failed = @ + 1]
        /\ UNCHANGED entries
  /\ phase' = "read"
  /\ at' = "none"
  /\ UNCHANGED <<relinked, touched, changes, inside, opts, stack, seen>>

\* readdir() returns NULL at the end of the directory and when it fails, then
\* closedir() and rmdir(), which succeeds only on an empty directory that is
\* no mount point.
Leave(at_end) ==
  /\ phase = "read"
  /\ at_end => Top.listed \cap Names(Top.dir) \subseteq Top.done
  /\ LET path   == PathTo(Len(stack))
         parent == path[Len(stack)]
     IN  \/ /\ opts.remove_dirs
            /\ Resolves(path)
            /\ Names(Top.dir) = {}
            /\ <<parent, Top.dir>> \notin Binds
            /\ entries' = [entries EXCEPT ![parent] = @ \ {Top.dir}]
            /\ stack' = SubSeq(stack, 1, Len(stack) - 1)
            /\ at' = "none"
            /\ phase' = IF Len(stack) = 1 THEN "done" ELSE "read"
            /\ result' = [result EXCEPT !.dirs_removed = @ + 1,
                                        !.code = IF Len(stack) = 1 THEN "OK" ELSE @]
         \/ UNCHANGED entries /\ Return(SubSeq(stack, 1, Len(stack) - 1), "OK")
  /\ UNCHANGED <<content, relinked, touched, changes, inside, opts, seen>>

-----------------------------------------------------------------------------
(* The other process. *)

Change(nodes) ==
  /\ changes < MaxChanges
  /\ changes' = changes + 1
  /\ touched' = touched \cup nodes
  /\ UNCHANGED walk

\* rename() from one directory to another on the same device.
Rename(n, d, e) ==
  /\ n \in entries[d] \ Names(e)
  /\ <<d, n>> \notin Binds
  /\ Dev[d] = Dev[e]
  /\ n \in Dirs => e # n /\ e \notin Below(n)
  /\ entries' = [entries EXCEPT ![d] = @ \ {n}, ![e] = @ \cup {n}]
  /\ Change({n} \cup IF n \in Dirs THEN Below(n) ELSE {})
  /\ UNCHANGED content

Move(n, d, e) == Rename(n, d, e) /\ UNCHANGED relinked

\* A directory is moved, and a symbolic link to it is left under its name; it
\* leads to the directory wherever that is moved to later.
Relocate(n, d, e) == Rename(n, d, e) /\ relinked' = relinked \cup {<<d, n>>}

\* It creates a file that is nowhere, or removes one.
Create(f, d) ==
  /\ \A e \in Dirs : f \notin entries[e]
  /\ entries' = [entries EXCEPT ![d] = @ \cup {f}]
  /\ content' = [content EXCEPT ![f] = "data"]
  /\ Change({f})
  /\ UNCHANGED relinked

Unlink(f, d) ==
  /\ f \in entries[d]
  /\ entries' = [entries EXCEPT ![d] = @ \ {f}]
  /\ Change({f})
  /\ UNCHANGED <<content, relinked>>

Write(f) ==
  /\ content[f] = "erased"
  /\ content' = [content EXCEPT ![f] = "data"]
  /\ Change({f})
  /\ UNCHANGED <<entries, relinked>>

-----------------------------------------------------------------------------
FolderInit ==
  /\ entries \in Trees
  /\ relinked = {}
  /\ content = [f \in Files |-> "data"]
  /\ touched = {}
  /\ changes = 0
  /\ inside = {}
  /\ phase = "idle"
  /\ opts = [remove_dirs |-> TRUE, follow_mount |-> FALSE, max_depth |-> 128,
             passes |-> 3, remove_file |-> TRUE]
  /\ stack = <<>>
  /\ at = "none"
  /\ seen = {}
  /\ result = NoResult

Options == [remove_dirs: BOOLEAN, follow_mount: BOOLEAN, max_depth: Depths,
            passes: PassCounts, remove_file: BOOLEAN]

FolderNext ==
  \/ \E dangerous \in BOOLEAN, o \in Options : Call(dangerous, o)
  \/ Enter \/ OpenDir \/ ReadEntry \/ EraseEntry \/ \E at_end \in BOOLEAN : Leave(at_end)
  \/ \E n \in Nodes, d, e \in Dirs : Move(n, d, e)
  \/ \E n, d, e \in Dirs : Relocate(n, d, e)
  \/ \E f \in Files, d \in Dirs : Create(f, d) \/ Unlink(f, d)
  \/ \E f \in Files : Write(f)

FolderSpec == FolderInit /\ [][FolderNext]_dvars

-----------------------------------------------------------------------------
(* What folder_erase must guarantee. *)

\* When the root is gone at the end, and the other process did not take it
\* away, every file that was below it was overwritten or was changed by that
\* process: an error below, which folder_erase drops, keeps the root.
RootGoneMeansErased ==
  phase = "done" /\ Root \notin entries[Outside] /\ Root \notin touched /\ opts.passes > 0 =>
    \A f \in inside : content[f] = "erased" \/ f \in touched

\* A file that is in a directory, on the file system of the root unless
\* follow_mount is set, is overwritten.
Overwrites(f, d) ==
  /\ content[f] = "data" /\ content'[f] = "erased" /\ f \in entries[d]
  /\ opts.follow_mount \/ ~ CrossMount(d)

\* Only files below the root are overwritten, on its own file system unless
\* follow_mount is set, however directories are moved during the walk; or the
\* path by which the file is reached leads through a link that was left for a
\* directory on it.
OnlyBelowRoot ==
  [][\A f \in Files : content[f] = "data" /\ content'[f] = "erased" =>
       \E d \in Dirs :
         /\ Overwrites(f, d)
         /\ \/ d = Root \/ d \in Below(Root)
            \/ \E i \in 2 .. Len(stack) : IsLink(PathTo(Len(stack)), i)]_dvars

FolderTypeOK ==
  /\ entries \in [Dirs -> SUBSET Nodes]
  /\ content \in [Files -> {"data", "erased"}]
  /\ relinked \subseteq Dirs \X Dirs
  /\ touched \subseteq Nodes
  /\ changes \in 0 .. MaxChanges
  /\ inside \subseteq Files
  /\ phase \in {"idle", "enter", "open", "read", "file", "done"}
  /\ \A i \in 1 .. Len(stack) : stack[i] \in [dir: Dirs, listed: SUBSET Nodes, done: SUBSET Nodes]
  /\ at \in Nodes \cup {"none"}
  /\ seen \subseteq Dirs
  /\ result.code \in {"none", "OK", "FAILED", "DANGEROUS_PATH", "CYCLE_DETECTED"}
  /\ result.processed = result.succeeded + result.failed

\* A directory that is mounted below itself is not walked again while it is
\* walked, unless the inode table was full: the depth is bounded even then.
NoReentry ==
  /\ FolderTypeOK
  /\ Len(stack) <= opts.max_depth + 1
  /\ \A i, j \in 1 .. Len(stack) :
       stack[i].dir = stack[j].dir => i = j \/ stack[i].dir \notin seen
=============================================================================
