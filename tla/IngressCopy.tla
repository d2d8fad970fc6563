----------------------------- MODULE IngressCopy -----------------------------
(***************************************************************************)
(* One call of copy_device_in (src/keysas-io/src/main.rs:326-355) and the *)
(* copy_files_in it runs (381-472).  The device is mounted read-only on a  *)
(* temporary directory, the .lock marker is created, and inside a          *)
(* crossbeam thread::scope the parent walks the tree and spawns one thread *)
(* per regular file.  A thread copies its file to TMP_DIR/<name> with      *)
(* fs::copy and renames it to SAS_IN/<name>; when the copy fails it        *)
(* creates SAS_IN/<name>.ioerror and unmounts the mount point (DETACH).    *)
(* After the scope has joined every thread the lock is removed and the     *)
(* mount is dropped through into_unmount_drop.                             *)
(*                                                                         *)
(* Every UI connection has its own worker with its own udev monitor         *)
(* (main.rs:636-652), so each of Workers runs copy_device_in for the same   *)
(* key, on its own mount point, against the one SAS_IN, TMP_DIR and .lock. *)
(* Thread t = <<w, f>> is worker w's thread for file f.                    *)
(*                                                                         *)
(* Files are inodes: fs::copy opens TMP_DIR/<name> with O_TRUNC, so two    *)
(* threads whose files have the same sanitised name share one inode, and   *)
(* a thread keeps writing through its descriptor after another thread has *)
(* renamed that inode into SAS_IN.  Inode t is the one thread t creates.   *)
(* A file's content is Chunks blocks; block i of source file f is <<f, i>>.*)
(***************************************************************************)
EXTENDS Naturals, Sequences, FiniteSets

CONSTANTS
    Workers,        \* workers running copy_device_in for the key (one per UI)
    Files,          \* regular files on the USB key (model values)
    Names,          \* destination names after '?'->'-' and remove_diacritics
    Name,           \* [Files -> Names]
    BadNames,       \* files whose path is not valid UTF-8: to_str().unwrap()
    Unreadable,     \* files under a directory of the key WalkDir cannot read
    Chunks,         \* blocks per file
    MountMayFail,   \* Mount::builder().mount may fail
    LockMayFail,    \* File::create(LOCK) may fail
    DeviceMayVanish,\* the key may be pulled out during the copy
    None, Hole      \* model values: no inode; a never-written block

ASSUME /\ Name \in [Files -> Names] /\ BadNames \subseteq Files /\ Unreadable \subseteq Files
       /\ Chunks \in Nat \ {0}
       /\ {MountMayFail, LockMayFail, DeviceMayVanish} \subseteq BOOLEAN

Threads == Workers \X Files
Inodes == Threads

VARIABLES
    parent,   \* [Workers -> state of copy_device_in / copy_files_in]
    unwalked, \* [Workers -> files WalkDir has not yielded yet]
    thr,      \* [Threads -> thread state]
    fd,       \* [Threads -> Inodes \cup {None}]: inode a thread writes to
    pos,      \* [Threads -> 0..Chunks]: blocks a thread has copied
    content,  \* [Inodes -> Seq]: inode contents
    tmpdir,   \* [Names -> Inodes \cup {None}]: inode at TMP_DIR/<name>
    sasin,    \* [Names -> Inodes \cup {None}]: inode at SAS_IN/<name>
    ioerror,  \* set of names with a SAS_IN/<name>.ioerror report
    lock,     \* SAS_IN/.lock exists
    mounted,  \* [Workers -> BOOLEAN]: the key is mounted on w's mount point
    present   \* the key is still plugged in

vars == <<parent, unwalked, thr, fd, pos, content, tmpdir, sasin, ioerror,
          lock, mounted, present>>

ParentStates == {"mount", "lock", "walk", "join", "unwind", "unlock", "remove",
                 "done", "err", "panicked"}
ThreadStates == {"unspawned", "start", "copy", "done", "skipped", "failed", "panicked"}
Block == (Files \X (1..Chunks)) \cup {Hole}

\* The content of source file f.
Content(f) == [i \in 1..Chunks |-> <<f, i>>]

\* pwrite of block b at 1-based position p: a position past the end
\* leaves a hole.
WriteAt(s, p, b) ==
    [i \in 1..(IF p > Len(s) THEN p ELSE Len(s)) |->
        IF i = p THEN b ELSE IF i <= Len(s) THEN s[i] ELSE Hole]

Finished(t) == thr[t] \in {"unspawned", "done", "skipped", "failed", "panicked"}

-----------------------------------------------------------------------------
Init ==
    /\ parent = [w \in Workers |-> "mount"]
    /\ unwalked = [w \in Workers |-> Files]
    /\ thr = [t \in Threads |-> "unspawned"]
    /\ fd = [t \in Threads |-> None]
    /\ pos = [t \in Threads |-> 0]
    /\ content = [i \in Inodes |-> <<>>]
    /\ tmpdir = [n \in Names |-> None]
    /\ sasin = [n \in Names |-> None]
    /\ ioerror = {}
    /\ lock = FALSE
    /\ mounted = [w \in Workers |-> FALSE]
    /\ present = TRUE

(* Mount::builder()...mount (main.rs:330-335): Ok leads to copy_files_in;  *)
(* Err is logged and copy_device_in returns Ok (343-352).                  *)
Mount(w) ==
    /\ parent[w] = "mount"
    /\ \/ /\ present
          /\ mounted' = [mounted EXCEPT ![w] = TRUE]
          /\ parent' = [parent EXCEPT ![w] = "lock"]
       \/ /\ MountMayFail \/ ~present
          /\ parent' = [parent EXCEPT ![w] = "done"]
          /\ UNCHANGED mounted
    /\ UNCHANGED <<unwalked, thr, fd, pos, content, tmpdir, sasin, ioerror,
                   lock, present>>

(* File::create(LOCK)? (main.rs:382): on Err copy_files_in returns before  *)
(* into_unmount_drop is reached (339-341).                                 *)
CreateLock(w) ==
    /\ parent[w] = "lock"
    /\ \/ /\ lock' = TRUE
          /\ parent' = [parent EXCEPT ![w] = "walk"]
       \/ /\ LockMayFail
          /\ parent' = [parent EXCEPT ![w] = "err"]
          /\ UNCHANGED lock
    /\ UNCHANGED <<unwalked, thr, fd, pos, content, tmpdir, sasin, ioerror,
                   mounted, present>>

(* WalkDir yields the entry of file f (main.rs:384-386).  An Err of the   *)
(* walk -- a directory of the key that cannot be read, or a readdir that   *)
(* fails once the key is gone -- is dropped by filter_map(|e| e.ok()), and *)
(* f is never copied nor reported.  Otherwise e.metadata().expect stats    *)
(* the path under the mount point: once a thread has unmounted it, or with *)
(* an I/O error on a vanished key (unless the inode is still cached), the  *)
(* .expect panics in the parent, which still joins every thread before     *)
(* unwinding (crossbeam scope); else a thread is spawned.                  *)
Walk(w, f) ==
    /\ parent[w] = "walk"
    /\ f \in unwalked[w]
    /\ unwalked' = [unwalked EXCEPT ![w] = @ \ {f}]
    /\ \/ /\ f \in Unreadable \/ ~present
          /\ UNCHANGED <<parent, thr>>
       \/ /\ f \notin Unreadable
          /\ ~mounted[w] \/ ~present
          /\ parent' = [parent EXCEPT ![w] = "unwind"]
          /\ UNCHANGED thr
       \/ /\ mounted[w]
          /\ f \notin Unreadable
          /\ thr' = [thr EXCEPT ![<<w, f>>] = "start"]
          /\ UNCHANGED parent
    /\ UNCHANGED <<fd, pos, content, tmpdir, sasin, ioerror, lock, mounted, present>>

WalkEnd(w) ==
    /\ parent[w] = "walk"
    /\ unwalked[w] = {}
    /\ parent' = [parent EXCEPT ![w] = "join"]
    /\ UNCHANGED <<unwalked, thr, fd, pos, content, tmpdir, sasin, ioerror,
                   lock, mounted, present>>

(* A thread's failed fs::copy (main.rs:421-455): SAS_IN/<name>.ioerror is *)
(* created (its text goes to the String, not the file) and the worker's   *)
(* mount point is unmounted with DETACH; an Err of unmount is only logged.*)
CopyFailed(t) ==
    /\ thr' = [thr EXCEPT ![t] = "failed"]
    /\ fd' = [fd EXCEPT ![t] = None]
    /\ ioerror' = ioerror \cup {Name[t[2]]}
    /\ mounted' = [mounted EXCEPT ![t[1]] = FALSE]

(* Thread start (main.rs:388-418): to_str().unwrap() panics on a non-UTF-8 *)
(* path; fs::metadata fails once the mount point is unmounted and the      *)
(* thread ends silently; otherwise fs::copy opens the source, which fails  *)
(* once the key is gone, and opens TMP_DIR/<name> with O_TRUNC, creating   *)
(* the inode if the path is free.                                          *)
ThreadStart(t) ==
    /\ thr[t] = "start"
    /\ \/ /\ t[2] \in BadNames
          /\ thr' = [thr EXCEPT ![t] = "panicked"]
          /\ UNCHANGED <<fd, content, tmpdir, ioerror, mounted>>
       \/ /\ t[2] \notin BadNames
          /\ ~mounted[t[1]]
          /\ thr' = [thr EXCEPT ![t] = "skipped"]
          /\ UNCHANGED <<fd, content, tmpdir, ioerror, mounted>>
       \/ /\ t[2] \notin BadNames
          /\ mounted[t[1]]
          /\ ~present
          /\ CopyFailed(t)
          /\ UNCHANGED <<content, tmpdir>>
       \/ /\ t[2] \notin BadNames
          /\ mounted[t[1]]
          /\ present
          /\ LET n == Name[t[2]]
                 ino == IF tmpdir[n] = None THEN t ELSE tmpdir[n]
             IN /\ fd' = [fd EXCEPT ![t] = ino]
                /\ content' = [content EXCEPT ![ino] = <<>>]
                /\ tmpdir' = [tmpdir EXCEPT ![n] = ino]
          /\ thr' = [thr EXCEPT ![t] = "copy"]
          /\ UNCHANGED <<ioerror, mounted>>
    /\ UNCHANGED <<parent, unwalked, pos, sasin, lock, present>>

\* Mutant: the copy loop runs past the end of the file.
CopyBlockNoBound(t) ==
    /\ thr[t] = "copy"
    /\ \/ /\ present
          /\ content' = [content EXCEPT ![fd[t]] = WriteAt(@, pos[t] + 1, <<t[2], pos[t] + 1>>)]
          /\ pos' = [pos EXCEPT ![t] = @ + 1]
          /\ UNCHANGED <<thr, fd, ioerror, mounted>>
       \/ /\ ~present
          /\ CopyFailed(t)
          /\ UNCHANGED <<content, pos>>
    /\ UNCHANGED <<parent, unwalked, tmpdir, sasin, lock, present>>

(* fs::copy moves block pos+1 through the open descriptors (main.rs:419). *)
(* A read fails once the key is gone; a DETACH unmount does not stop it.   *)
CopyBlock(t) ==
    /\ thr[t] = "copy"
    /\ pos[t] < Chunks
    /\ \/ /\ present
          /\ content' = [content EXCEPT ![fd[t]] = WriteAt(@, pos[t] + 1, <<t[2], pos[t] + 1>>)]
          /\ pos' = [pos EXCEPT ![t] = @ + 1]
          /\ UNCHANGED <<thr, fd, ioerror, mounted>>
       \/ /\ ~present
          /\ CopyFailed(t)
          /\ UNCHANGED <<content, pos>>
    /\ UNCHANGED <<parent, unwalked, tmpdir, sasin, lock, present>>

(* fs::copy returned Ok; fs::rename(TMP_DIR/<name>, SAS_IN/<name>)        *)
(* replaces the destination, and fails unseen when the temporary path is  *)
(* gone (main.rs:420-422).                                                 *)
Rename(t) ==
    /\ thr[t] = "copy"
    /\ pos[t] = Chunks
    /\ LET n == Name[t[2]]
       IN IF tmpdir[n] # None
          THEN /\ sasin' = [sasin EXCEPT ![n] = tmpdir[n]]
               /\ tmpdir' = [tmpdir EXCEPT ![n] = None]
          ELSE UNCHANGED <<sasin, tmpdir>>
    /\ thr' = [thr EXCEPT ![t] = "done"]
    /\ fd' = [fd EXCEPT ![t] = None]
    /\ UNCHANGED <<parent, unwalked, pos, content, ioerror, lock, mounted, present>>

\* Mutant: the threads are detached rather than scoped; nothing is joined.
JoinEarly(w) ==
    /\ parent[w] \in {"join", "unwind"}
    /\ parent' = [parent EXCEPT ![w] =
           IF parent[w] = "join" /\ \A f \in Files : thr[<<w, f>>] # "panicked"
           THEN "unlock" ELSE "panicked"]
    /\ UNCHANGED <<unwalked, thr, fd, pos, content, tmpdir, sasin, ioerror,
                   lock, mounted, present>>

(* The scope has joined every thread of w (main.rs:464-465): a panicked   *)
(* thread makes .expect panic, as does a parent that panicked while        *)
(* walking once every thread has ended; the mount and the lock stay.       *)
Join(w) ==
    /\ parent[w] \in {"join", "unwind"}
    /\ \A f \in Files : Finished(<<w, f>>)
    /\ parent' = [parent EXCEPT ![w] =
           IF parent[w] = "join" /\ \A f \in Files : thr[<<w, f>>] # "panicked"
           THEN "unlock" ELSE "panicked"]
    /\ UNCHANGED <<unwalked, thr, fd, pos, content, tmpdir, sasin, ioerror,
                   lock, mounted, present>>

(* if Path::new(LOCK).exists() (main.rs:467): with no lock copy_files_in   *)
(* returns Ok and copy_device_in drops the mount (into_unmount_drop,       *)
(* 339-341).                                                               *)
CheckLock(w) ==
    /\ parent[w] = "unlock"
    /\ IF lock
       THEN /\ parent' = [parent EXCEPT ![w] = "remove"]
            /\ UNCHANGED mounted
       ELSE /\ parent' = [parent EXCEPT ![w] = "done"]
            /\ mounted' = [mounted EXCEPT ![w] = FALSE]
    /\ UNCHANGED <<unwalked, thr, fd, pos, content, tmpdir, sasin, ioerror,
                   lock, present>>

(* fs::remove_file(LOCK)? (main.rs:468): Ok drops the mount; when another *)
(* worker removed the lock since the exists() test, the Err returns from   *)
(* copy_device_in before into_unmount_drop (339-341).                      *)
RemoveLock(w) ==
    /\ parent[w] = "remove"
    /\ IF lock
       THEN /\ lock' = FALSE
            /\ parent' = [parent EXCEPT ![w] = "done"]
            /\ mounted' = [mounted EXCEPT ![w] = FALSE]
       ELSE /\ parent' = [parent EXCEPT ![w] = "err"]
            /\ UNCHANGED <<lock, mounted>>
    /\ UNCHANGED <<unwalked, thr, fd, pos, content, tmpdir, sasin, ioerror, present>>

(* The key is pulled out: the udev remove event is handled only after this *)
(* transfer, so the copy meets the vanished device.                       *)
Unplug ==
    /\ DeviceMayVanish
    /\ present
    /\ present' = FALSE
    /\ UNCHANGED <<parent, unwalked, thr, fd, pos, content, tmpdir, sasin,
                   ioerror, lock, mounted>>

Next ==
    \/ Unplug
    \/ \E w \in Workers :
          \/ Mount(w) \/ CreateLock(w) \/ WalkEnd(w) \/ Join(w)
          \/ CheckLock(w) \/ RemoveLock(w)
          \/ \E f \in Files : Walk(w, f)
    \/ \E t \in Threads : ThreadStart(t) \/ CopyBlock(t) \/ Rename(t)

\* The steps of the workers and of their spawned threads: the OS schedules
\* every runnable thread, while the user pulling the key out is never forced.
Program == Next /\ ~Unplug

Spec == Init /\ [][Next]_vars /\ WF_vars(Program)

-----------------------------------------------------------------------------
TypeOK ==
    /\ parent \in [Workers -> ParentStates]
    /\ unwalked \in [Workers -> SUBSET Files]
    /\ thr \in [Threads -> ThreadStates]
    /\ fd \in [Threads -> Inodes \cup {None}]
    /\ pos \in [Threads -> 0..Chunks]
    /\ \A i \in Inodes : content[i] \in Seq(Block) /\ Len(content[i]) <= Chunks
    /\ tmpdir \in [Names -> Inodes \cup {None}]
    /\ sasin \in [Names -> Inodes \cup {None}]
    /\ ioerror \subseteq Names
    /\ mounted \in [Workers -> BOOLEAN]
    /\ {lock, present} \subseteq BOOLEAN

(* Every file a thread has finished writing and published in SAS_IN is one *)
(* whole source file, never blocks of two files mixed through the shared   *)
(* TMP_DIR/<name> inode (fs::copy with O_TRUNC, then fs::rename).          *)
SasInIntact ==
    \A n \in Names :
        /\ sasin[n] # None
        /\ \A t \in Threads : fd[t] # sasin[n]
        => content[sasin[n]] \in {Content(f) : f \in Files}

(* When copy_files_in has walked the whole key and returned Ok with no     *)
(* .ioerror written, every file of the key is in SAS_IN under its name     *)
(* (spec 4.E: every regular file is copied, and a failed copy leaves a     *)
(* .ioerror report; after one, the remaining files may be skipped, spec 7  *)
(* IoTransient).  A WalkDir error dropped by filter_map is what breaks it. *)
NoSilentLoss ==
    \A w \in Workers :
        parent[w] = "done" /\ unwalked[w] = {} /\ ioerror = {} =>
            \A f \in Files :
                sasin[Name[f]] # None /\ content[sasin[Name[f]]] = Content(f)

(* The .lock marker is present while any copy thread is running, as the    *)
(* signal that ingress is in progress (created before thread::scope,       *)
(* removed after it).                                                      *)
LockSpansThreads ==
    (\E t \in Threads : thr[t] \in {"start", "copy"}) => lock

(* copy_device_in ends without a panic of the worker thread, whatever the  *)
(* key holds or does.                                                      *)
NoPanic == \A w \in Workers : parent[w] # "panicked"

(* Every way copy_device_in ends (Ok, Err, panic) leaves the key unmounted.*)
MountReleased ==
    \A w \in Workers : parent[w] \in {"done", "err", "panicked"} => ~mounted[w]

-----------------------------------------------------------------------------
(* Refinement mapping to AtomicIngress: SAS_IN/<name> shows the source     *)
(* file whose whole content its inode holds, or "torn" when it holds none. *)
Arrived(n) ==
    IF sasin[n] = None THEN None
    ELSE LET src == {f \in Files : Name[f] = n /\ content[sasin[n]] = Content(f)}
         IN  IF src = {} THEN "torn" ELSE CHOOSE f \in src : TRUE

Abstract == INSTANCE AtomicIngress
    WITH published <- [n \in Names |-> Arrived(n)],
         busy <- lock,
         ended <- \A w \in Workers : parent[w] \in {"done", "err", "panicked"}

(* The ingress of a key implements an atomic ingress: a file appears in    *)
(* SAS_IN only whole, in one step (the fs::rename of a finished fs::copy), *)
(* and only while SAS_IN/.lock is present; the lock goes only when the     *)
(* transfer ends, and it ends (each scope joins its threads, which the     *)
(* scheduler runs to completion).                                          *)
AtomicIngressSpec == Abstract!Spec
=============================================================================
