--------------------------- MODULE ProviderFiles ---------------------------
(***************************************************************************)
(* The files that the provider owns and curator-run reads or replaces while *)
(* the provider may be writing them.  One pass of one of three tasks:       *)
(*   "cache"  readPolicyCache of the gateway's admission: inspect, open,     *)
(*            stat, read in chunks, stat, inspect again;                     *)
(*   "token"  the OAuth store's readFile: open, stat, read, stat;            *)
(*   "hooks"  the doorbell's Ensure: pin .claude, read settings.local.json,  *)
(*            install into a copy, commit by rename, read back and confirm.  *)
(* Meanwhile others write files in place, replace or remove their entries    *)
(* and move the directory.  A file is an inode with a text of chunks and a   *)
(* modification time of coarse ticks; inode numbers are used again.          *)
(***************************************************************************)
EXTENDS Naturals, Sequences, SequencesExt

CONSTANTS
    Dir,        \* directories that the pinned name may lead to
    Inode,      \* inode numbers
    Chunk,      \* pieces of a text
    Body,       \* texts that the others write, sequences of chunks
    Hooks,      \* the chunk that the installer puts into a settings file
    None,       \* no entry, no inode
    MaxSize,    \* maxSettingsBytes, settingsBound, maxBytes: chunks that are read
    MaxTime,    \* bound: ticks of the file clock
    MaxWrites   \* bound: writes, replacements and moves of others

ASSUME FilesAssumption ==
    /\ None \notin Dir \cup Inode
    /\ <<>> \in Body /\ Body \subseteq Seq(Chunk) /\ Hooks \in Chunk
    /\ MaxSize \in Nat /\ MaxTime \in Nat /\ MaxWrites \in Nat

VARIABLES
    \* the file system
    dir,        \* the directory the name .claude (or the home) leads to, or None
    path,       \* the inode each directory's entry names, or None
    special,    \* inodes that are not regular files: links, pipes, devices
    body, mtime,\* text and modification time of each inode
    now,        \* the file clock
    writes,     \* changes others have made
    \* the pass
    task, at,
    home,       \* the pinned directory
    fd,         \* the open file
    seen,       \* what was recorded of the file: inode, size, time
    doc,        \* what has been read
    \* history
    first,      \* the text of the recorded file when it was recorded
    sameTick,   \* a recorded file was written in the tick of its recorded time
    vouched,    \* the entry's file is the one the commit checked
    kept        \* the entry's file is as the doorbell read it back

world == <<dir, path, special, body, mtime>>
vars == <<dir, path, special, body, mtime, now, writes, task, at, home, fd, seen, doc,
          first, sameTick, vouched, kept>>

Unseen == [inode |-> None, size |-> 0, time |-> 0]

\* os.Lstat and Stat: what can be recorded of a file.
Facts(i) == [inode |-> i, size |-> Len(body[i]), time |-> mtime[i]]
Entry == IF home = None THEN None ELSE path[home]
Linked(i) == \E d \in Dir : path[d] = i

Final == {"admitted", "absent", "refused", "installed", "install", "verify"}

----------------------------------------------------------------------------
\* What the others do.

\* A write in place: any text, stamped with the clock's present tick.
Write(i, b) ==
    /\ body' = [body EXCEPT ![i] = b]
    /\ mtime' = [mtime EXCEPT ![i] = now]
    /\ sameTick' = (sameTick \/ (i = seen.inode /\ now = seen.time))

Edit ==
    /\ \E i \in Inode \ special, b \in Body :
          /\ Linked(i)
          /\ b # body[i]
          /\ Write(i, b)
          /\ kept' = (kept /\ i # Entry)
    /\ UNCHANGED <<dir, path, special, vouched>>

\* A new file takes the entry's place, or the first one; its inode number may be that
\* of a file that is neither linked nor open any more.
Replace ==
    /\ \E d \in Dir, i \in Inode, b \in Body :
          /\ ~Linked(i)
          /\ i # fd
          /\ path' = [path EXCEPT ![d] = i]
          /\ special' \in {special \ {i}, special \cup {i}}
          /\ Write(i, b)
          /\ vouched' = (vouched /\ d # home)
          /\ kept' = (kept /\ d # home)
    /\ UNCHANGED dir

Unlink ==
    /\ \E d \in Dir :
          /\ path[d] # None
          /\ path' = [path EXCEPT ![d] = None]
          /\ vouched' = (vouched /\ d # home)
          /\ kept' = (kept /\ d # home)
    /\ UNCHANGED <<dir, special, body, mtime, sameTick>>

\* The directory is moved away, or another takes its name.
Move ==
    /\ task = "hooks"
    /\ dir' \in (Dir \cup {None}) \ {dir}
    /\ UNCHANGED <<path, special, body, mtime, sameTick, vouched, kept>>

Others ==
    /\ at \notin Final
    /\ writes < MaxWrites
    /\ writes' = writes + 1
    /\ Edit \/ Replace \/ Unlink \/ Move
    /\ UNCHANGED <<now, task, at, home, fd, seen, doc, first>>

Tick ==
    /\ at \notin Final
    /\ now < MaxTime
    /\ now' = now + 1
    /\ UNCHANGED <<world, writes, task, at, home, fd, seen, doc, first, sameTick, vouched, kept>>

----------------------------------------------------------------------------
\* Steps of the pass.

Goto(label) == at' = label
Refuse == Goto(IF task = "hooks" THEN "install" ELSE "refused")
NoRead == UNCHANGED <<fd, seen, doc, first, sameTick>>
NoWrite == UNCHANGED <<world, vouched, kept>>

\* The file that a pass records from now on.
Record(i) ==
    /\ seen' = Facts(i)
    /\ first' = body[i]
    /\ sameTick' = FALSE

Readable(i) == i \notin special /\ Len(body[i]) <= MaxSize

\* safe and ownedRegular: an opened file whose entry is gone has no link left.
Safe(i) == Readable(i) /\ Len(body[i]) > 0 /\ Linked(i)

\* clock.step before every operation: a signal or a spent budget.
Stop ==
    /\ task = "cache"
    /\ at \notin Final
    /\ Refuse
    /\ NoRead /\ NoWrite
    /\ UNCHANGED <<now, writes, task, home>>

\* readPolicyCache: lstat of the path.
Inspect ==
    /\ at = "inspect"
    /\ \/ Entry = None /\ Goto("absent") /\ UNCHANGED <<seen, first, sameTick>>
       \/ /\ Entry # None
          /\ ~Readable(Entry)
          /\ Refuse
          /\ UNCHANGED <<seen, first, sameTick>>
       \/ /\ Entry # None
          /\ Readable(Entry)
          /\ Record(Entry)
          /\ Goto("open")
    /\ UNCHANGED <<fd, doc>>
    /\ NoWrite
    /\ UNCHANGED <<now, writes, task, home>>

\* open(O_NOFOLLOW|O_NONBLOCK); for settings an absent entry is an empty reading.
Open ==
    /\ at = "open"
    /\ \/ /\ Entry = None
          /\ IF task = "hooks" THEN Goto("stage") ELSE Refuse
          /\ UNCHANGED fd
       \/ Entry \in special /\ Refuse /\ UNCHANGED fd
       \/ /\ Entry \in Inode \ special
          /\ fd' = Entry
          /\ Goto("stat")
    /\ UNCHANGED <<seen, doc, first, sameTick>>
    /\ NoWrite
    /\ UNCHANGED <<now, writes, task, home>>

\* fstat of the opened file: the cache must be the file inspected, the others record it.
\* Mutant of OpenedAsSeen: the opened file is taken for the inspected one.
OpenedUnseen == TRUE

OpenedAsSeen == Facts(fd) = seen

StatOpened ==
    /\ at = "stat"
    /\ \/ /\ task = "cache"
          /\ IF OpenedAsSeen THEN Goto("read") ELSE Refuse
          /\ UNCHANGED <<seen, first, sameTick>>
       \/ /\ task = "token"
          /\ IF Safe(fd)
                THEN Record(fd) /\ Goto("read")
                ELSE Refuse /\ UNCHANGED <<seen, first, sameTick>>
       \/ /\ task = "hooks"
          /\ IF Linked(fd)
                THEN Record(fd) /\ Goto("read")
                ELSE Refuse /\ UNCHANGED <<seen, first, sameTick>>
    /\ UNCHANGED <<fd, doc>>
    /\ NoWrite
    /\ UNCHANGED <<now, writes, task, home>>

\* One read of the open file: the next chunk, or the end.
Read ==
    /\ at = "read"
    /\ IF Len(doc) < Len(body[fd])
          THEN /\ doc' = Append(doc, body[fd][Len(doc) + 1])
               /\ IF Len(doc') > MaxSize THEN Refuse ELSE UNCHANGED at
          ELSE /\ UNCHANGED doc
               /\ Goto(IF task = "hooks" THEN "stage" ELSE "after")
    /\ UNCHANGED <<fd, seen, first, sameTick>>
    /\ NoWrite
    /\ UNCHANGED <<now, writes, task, home>>

\* fstat after the last read; the OAuth store's file must still be safe.
\* Mutant of UnchangedSinceStat: only the size is compared.
UnchangedSize == Len(body[fd]) = seen.size /\ Len(doc) = seen.size

UnchangedSinceStat ==
    /\ Facts(fd) = seen
    /\ Len(doc) = seen.size
    /\ task = "token" => Safe(fd)

StatAfter ==
    /\ at = "after"
    /\ IF ~UnchangedSinceStat THEN Refuse
       ELSE Goto(IF task = "token" THEN "admitted" ELSE "inspectAgain")
    /\ NoRead /\ NoWrite
    /\ UNCHANGED <<now, writes, task, home>>

\* lstat of the path after the reading.
StillTheFile == Entry # None /\ Entry \notin special /\ Facts(Entry) = seen

InspectAgain ==
    /\ at = "inspectAgain"
    /\ IF StillTheFile THEN Goto("admitted") ELSE Refuse
    /\ NoRead /\ NoWrite
    /\ UNCHANGED <<now, writes, task, home>>

----------------------------------------------------------------------------
\* The doorbell's Ensure and settingsTarget.

\* pinSettings: .claude is opened without following links, and made when missing.
Pin ==
    /\ at = "pin"
    /\ \/ /\ dir # None
          /\ home' = dir
          /\ UNCHANGED <<dir, path>>
       \/ /\ dir = None
          /\ \E d \in Dir :
                /\ path[d] = None
                /\ dir' = d
                /\ home' = d
                /\ UNCHANGED path
    /\ Goto("open")
    /\ NoRead
    /\ UNCHANGED <<special, body, mtime, vouched, kept, now, writes, task>>

\* An unsafe directory or a failing open refuses.
PinFails ==
    /\ at = "pin"
    /\ Refuse
    /\ NoRead /\ NoWrite
    /\ UNCHANGED <<now, writes, task, home>>

Installed(d) == IF Contains(d, Hooks) THEN d ELSE Append(d, Hooks)
verify(d) == Contains(d, Hooks)

\* The installer works on a private copy; doc becomes what it left there.
Stage ==
    /\ at = "stage"
    /\ fd' = None                                     \* readSettings closes the file
    /\ \/ /\ Len(Installed(doc)) <= MaxSize
          /\ doc' = Installed(doc)
          /\ Goto("check")
       \/ doc' = <<>> /\ Goto("verify")              \* it verifies as not installed
       \/ UNCHANGED doc /\ Refuse                     \* it fails or takes ten seconds
    /\ UNCHANGED <<seen, first, sameTick>>
    /\ NoWrite
    /\ UNCHANGED <<now, writes, task, home>>

\* commit: the temporary file is written and synced, then the entry is compared by inode.
\* Mutant of SameEntry: the entry is not looked at again.
EntryUnseen == TRUE

SameEntry == Entry = seen.inode

Check ==
    /\ at = "check"
    /\ IF SameEntry
          THEN Goto("rename") /\ vouched' = TRUE
          ELSE Refuse /\ UNCHANGED vouched
    /\ NoRead
    /\ UNCHANGED <<world, kept>>
    /\ UNCHANGED <<now, writes, task, home>>

\* renameat of the temporary file within the pinned directory.
Rename ==
    /\ at = "rename"
    /\ \/ /\ \E i \in Inode :
                /\ ~Linked(i)
                /\ path' = [path EXCEPT ![home] = i]
                /\ special' = special \ {i}
                /\ body' = [body EXCEPT ![i] = doc]
                /\ mtime' = [mtime EXCEPT ![i] = now]
          /\ Goto("readback")
       \/ Refuse /\ UNCHANGED <<path, special, body, mtime>>
    /\ NoRead
    /\ UNCHANGED <<dir, vouched, kept, now, writes, task, home>>

\* Mutant of HooksRead: what the commit wrote is taken to be there still.
HooksAssumed == Entry # None

HooksRead == Entry # None /\ Readable(Entry) /\ verify(body[Entry])

\* The entry is read again through the pinned directory.
ReadBack ==
    /\ at = "readback"
    /\ IF HooksRead
          THEN Goto("confirm") /\ kept' = TRUE
          ELSE Goto("verify") /\ UNCHANGED kept
    /\ NoRead
    /\ UNCHANGED <<world, vouched>>
    /\ UNCHANGED <<now, writes, task, home>>

\* Mutant of NameLeadsHere: the name is not followed again.
NameUnfollowed == TRUE

NameLeadsHere == dir = home

\* The name .claude is followed again, to the directory that was pinned.
confirm ==
    /\ at = "confirm"
    /\ Goto(IF NameLeadsHere THEN "installed" ELSE "verify")
    /\ NoRead /\ NoWrite
    /\ UNCHANGED <<now, writes, task, home>>

----------------------------------------------------------------------------
Init ==
    /\ task \in {"cache", "token", "hooks"}
    /\ at = CASE task = "cache" -> "inspect" [] task = "token" -> "open" [] OTHER -> "pin"
    /\ dir \in IF task = "hooks" THEN Dir \cup {None} ELSE Dir
    /\ home = IF task = "hooks" THEN None ELSE dir
    /\ path \in [Dir -> Inode \cup {None}]
    /\ \A d, e \in Dir : d # e => path[d] # path[e] \/ path[d] = None
    /\ special = {}
    /\ body \in [Inode -> Body]
    /\ \A i \in Inode : ~Linked(i) => body[i] = <<>>
    /\ mtime = [i \in Inode |-> 0]
    /\ now = 0
    /\ writes = 0
    /\ fd = None
    /\ seen = Unseen
    /\ doc = <<>>
    /\ first = <<>>
    /\ sameTick = FALSE
    /\ vouched = FALSE
    /\ kept = FALSE

Pass ==
    \/ Stop \/ Inspect \/ Open \/ StatOpened \/ Read \/ StatAfter \/ InspectAgain
    \/ Pin \/ PinFails \/ Stage \/ Check \/ Rename \/ ReadBack \/ confirm

Next == Pass \/ Others \/ Tick

Spec == Init /\ [][Next]_vars

----------------------------------------------------------------------------
\* The recorded facts and the open file fit the step the pass has reached, and every
\* inode has at most one entry (readSettings refuses files with several links).
TypeOK ==
    /\ task \in {"cache", "token", "hooks"}
    /\ at \in {"inspect", "open", "stat", "read", "after", "inspectAgain",
               "pin", "stage", "check", "rename", "readback", "confirm"} \cup Final
    /\ dir \in Dir \cup {None}
    /\ home \in Dir \cup {None}
    /\ path \in [Dir -> Inode \cup {None}]
    /\ special \subseteq Inode
    /\ \A i \in Inode : mtime[i] \in 0 .. now
    /\ \A d, e \in Dir : path[d] = path[e] => d = e \/ path[d] = None
    /\ fd \in Inode \cup {None}
    /\ at \in {"stat", "read", "after", "inspectAgain"} => fd # None
    /\ at \in {"read", "after", "inspectAgain"} => seen.inode = fd
    /\ home = None => at \in {"pin", "install"}

\* An admitted document is one version of its file: the text it had when it was first
\* inspected (cache) or opened (token), and has now for the cache, although others write
\* it in place and replace it between any two of the reader's calls; except that a write
\* within the tick of the recorded time leaves no trace in it (readPolicyCache, readFile).
AdmittedIsOneVersion ==
    at = "admitted" /\ ~sameTick =>
        /\ doc = first
        /\ task = "cache" => body[Entry] = doc

\* What the doorbell's rename removes is the entry that commit compared with its reading,
\* or a later one: a file that was put there before, under another inode number, is never
\* overwritten (settingsTarget.commit, the check before Renameat).
NewcomerSurvives ==
    at = "rename" /\ at' = "readback" =>
        \/ path[home] = seen.inode
        \/ ~vouched

\* installed is reported of the directory that .claude leads to at that time, and of a
\* file with the hooks in it, although the directory may be moved or exchanged and the
\* file replaced at any step since the pinning; except for what another program did to
\* that file after it was read back (Ensure, readSettings after commit, confirm).
InstalledInPlace ==
    at = "installed" =>
        /\ dir = home
        /\ kept => Entry # None /\ verify(body[Entry])

\* Neither another program's settings nor the doorbell's hooks are lost unnoticed, at any
\* step of the doorbell or of the others (Ensure).
InstallLosesNothing == [][NewcomerSurvives /\ InstalledInPlace']_vars
=============================================================================
