-------------------------------- MODULE Egress --------------------------------
(***************************************************************************)
(* The egress staging directory SAS_OUT (/var/local/out/) and its two     *)
(* users, which are separate processes:                                    *)
(*  - keysas-out's output_files (src/keysas-core/src/keysas-out/main.rs:   *)
(*    231-347) writes, for every file received from transit, a .krp report *)
(*    and then, when the checks passed, the file itself;                    *)
(*  - keysas-io's move_device_out / move_files_out (src/keysas-io/src/     *)
(*    main.rs:357-379, 474-510), run when a signed key is plugged, copies   *)
(*    every entry of SAS_OUT to the key and removes it.                    *)
(* Both open files by path: keysas-out opens with create and no truncate,  *)
(* and keeps writing through its descriptor after keysas-io has unlinked   *)
(* the path.  A file's content is a sequence of blocks; block k of         *)
(* received file i is <<i, k>>.                                            *)
(***************************************************************************)
EXTENDS Naturals, Sequences, FiniteSets

CONSTANTS
    Incoming,        \* files received from keysas-transit (model values)
    Transit,         \* the order they are received in: a sequence of Incoming
    Names,           \* file names
    Name,            \* [Incoming -> Names]: FileMetadata.filename
    Length,          \* [Incoming -> 1..]: blocks of the file
    Md,              \* [Incoming -> verdict record]: FileMetadata flags
    YaraClean,       \* Configuration.yara_clean
    Concurrent,      \* the signed key may be plugged while keysas-out writes
    DeviceMayVanish, \* the signed key may be pulled out during the move
    WriteMayFail,    \* writing SAS_OUT/<name> may fail (disk full, I/O error)
    None             \* model value: no inode

ASSUME /\ Name \in [Incoming -> Names]
       /\ Length \in [Incoming -> Nat \ {0}]
       /\ {YaraClean, Concurrent, DeviceMayVanish, WriteMayFail} \subseteq BOOLEAN

MaxLen == LET L == {Length[i] : i \in Incoming} IN CHOOSE m \in L : \A l \in L : l <= m
Block == Incoming \X (1..MaxLen)
Entries == Names \X {"file", "krp"}

VARIABLES
    wq,        \* files keysas-out has still to receive
    wpc,       \* keysas-out: "next", "open", "copy"
    wcur,      \* the file keysas-out is writing
    wfd,       \* inode keysas-out writes to
    wpos,      \* blocks of wcur written
    out,       \* [Names -> Incoming \cup {None}]: inode at SAS_OUT/<name>
    krp,       \* names with a SAS_OUT/<name>.krp report
    content,   \* [Incoming -> Seq(Block)]: inode i is created for file i
    mpc,       \* keysas-io: "wait", "mount", "list", "copy", "remove", "done"
    yielded,   \* entries read_dir has returned
    opened,    \* entries present when read_dir was opened
    mcur,      \* the entry being moved
    mino,      \* its inode
    mpos,      \* blocks of it fs::copy has read
    key,       \* [Names -> Seq(Block)]: files on the signed key
    keyFiles,  \* names present as files on the key
    keyKrp,    \* names present as reports on the key
    mounted,   \* the signed key is mounted
    present    \* the signed key is plugged in

vars == <<wq, wpc, wcur, wfd, wpos, out, krp, content, mpc, yielded, opened,
          mcur, mino, mpos, key, keyFiles, keyKrp, mounted, present>>
writer == <<wq, wpc, wcur, wfd, wpos>>
mover == <<mpc, yielded, opened, mcur, mino, mpos, key, keyFiles, keyKrp,
           mounted, present>>

Content(i) == [k \in 1..Length[i] |-> <<i, k>>]

\* pwrite of block b at 1-based position p of s (p <= Len(s) + 1 here).
WriteAt(s, p, b) ==
    [k \in 1..(IF p > Len(s) THEN p ELSE Len(s)) |-> IF k = p THEN b ELSE s[k]]

\* Entries of SAS_OUT now.
InSasOut == {<<n, "file">> : n \in {m \in Names : out[m] # None}}
            \cup {<<n, "krp">> : n \in krp}

\* The condition under which output_files writes the file (main.rs:307-311).
OutputAllowed(md) ==
    /\ md.is_digest_ok
    /\ ~md.is_toobig
    /\ md.is_type_allowed
    /\ md.av_pass
    /\ md.yara_pass \/ (~md.yara_pass /\ ~YaraClean)

-----------------------------------------------------------------------------
Init ==
    /\ wq = Transit
    /\ wpc = "next"
    /\ wcur = None
    /\ wfd = None
    /\ wpos = 0
    /\ out = [n \in Names |-> None]
    /\ krp = {}
    /\ content = [i \in Incoming |-> <<>>]
    /\ mpc = "wait"
    /\ yielded = {}
    /\ opened = {}
    /\ mcur = None
    /\ mino = None
    /\ mpos = 0
    /\ key = [n \in Names |-> <<>>]
    /\ keyFiles = {}
    /\ keyKrp = {}
    /\ mounted = FALSE
    /\ present = TRUE

(* output_files takes the next received file and writes its report        *)
(* (main.rs:258-303); the file follows only when the checks passed         *)
(* (305-311).  The report file is opened with create and no truncate.      *)
WriteReport ==
    /\ wpc = "next"
    /\ wq # <<>>
    /\ wcur' = Head(wq)
    /\ wq' = Tail(wq)
    /\ krp' = krp \cup {Name[Head(wq)]}
    /\ wpc' = IF OutputAllowed(Md[Head(wq)]) THEN "open" ELSE "next"
    /\ UNCHANGED <<wfd, wpos, out, content>>
    /\ UNCHANGED mover

(* File::options().write(true).create(true).open (main.rs:317): an        *)
(* existing SAS_OUT/<name> is reused as it is, without truncation.        *)
OpenOutput ==
    /\ wpc = "open"
    /\ LET n == Name[wcur]
       IN IF out[n] = None
          THEN /\ out' = [out EXCEPT ![n] = wcur]
               /\ content' = [content EXCEPT ![wcur] = <<>>]
               /\ wfd' = wcur
          ELSE /\ wfd' = out[n]
               /\ UNCHANGED <<out, content>>
    /\ wpos' = 0
    /\ wpc' = "copy"
    /\ UNCHANGED <<wq, wcur, krp>>
    /\ UNCHANGED mover

\* Mutant: the copy loop does not stop at the end of the file.
WriteBlockNoBound ==
    /\ wpc = "copy"
    /\ content' = [content EXCEPT ![wfd] = WriteAt(@, wpos + 1, <<wcur, wpos + 1>>)]
    /\ wpos' = wpos + 1
    /\ UNCHANGED <<wq, wpc, wcur, wfd, out, krp>>
    /\ UNCHANGED mover

(* io::copy through the BufWriter writes the next block (main.rs:335-341). *)
WriteBlock ==
    /\ wpc = "copy"
    /\ wpos < Length[wcur]
    /\ content' = [content EXCEPT ![wfd] = WriteAt(@, wpos + 1, <<wcur, wpos + 1>>)]
    /\ wpos' = wpos + 1
    /\ UNCHANGED <<wq, wpc, wcur, wfd, out, krp>>
    /\ UNCHANGED mover

(* io::copy returns Err, or the BufWriter's last flush fails when it is  *)
(* dropped: the error is logged (main.rs:337-341) and output_files goes on *)
(* with the next file, leaving SAS_OUT/<name> without the blocks not yet   *)
(* written, next to a report that says the file passed.                    *)
WriteFails ==
    /\ wpc = "copy"
    /\ WriteMayFail
    /\ wpos < Length[wcur]
    /\ wpc' = "next"
    /\ wfd' = None
    /\ UNCHANGED <<wq, wcur, wpos, out, krp, content>>
    /\ UNCHANGED mover

\* The file is written; output_files goes on with the next one.
WriteDone ==
    /\ wpc = "copy"
    /\ wpos = Length[wcur]
    /\ wpc' = "next"
    /\ wfd' = None
    /\ UNCHANGED <<wq, wcur, wpos, out, krp, content>>
    /\ UNCHANGED mover

(* A signed key is plugged and move_device_out mounts it read-write       *)
(* (main.rs:357-365); a failed mount is logged and the call returns Ok    *)
(* (373-375).  Unless Concurrent, this happens once keysas-out is idle.    *)
MountKey ==
    /\ mpc = "wait"
    /\ Concurrent \/ (wq = <<>> /\ wpc = "next")
    /\ IF present
       THEN /\ mounted' = TRUE
            /\ mpc' = "mount"
       ELSE /\ mpc' = "done"
            /\ UNCHANGED mounted
    /\ UNCHANGED <<yielded, opened, mcur, mino, mpos, key, keyFiles, keyKrp, present>>
    /\ UNCHANGED <<out, krp, content>> /\ UNCHANGED writer

\* fs::read_dir(SAS_OUT)? opens the directory (main.rs:475).
OpenDir ==
    /\ mpc = "mount"
    /\ opened' = InSasOut
    /\ mpc' = "list"
    /\ UNCHANGED <<yielded, mcur, mino, mpos, key, keyFiles, keyKrp, mounted, present>>
    /\ UNCHANGED <<out, krp, content>> /\ UNCHANGED writer

(* read_dir yields entry e, an entry of the directory now: one created     *)
(* after opendir may or may not be seen.  fs::copy(src, key/<name>)        *)
(* (main.rs:491-492) opens the source and creates or truncates the          *)
(* destination; once the mount point has been unmounted the destination is *)
(* the empty temporary directory, and once the key is gone the open fails, *)
(* which unmounts the key (495-501).  A report is copied in one step.      *)
NextEntry(e) ==
    /\ mpc = "list"
    /\ e \in InSasOut \ yielded
    /\ yielded' = yielded \cup {e}
    /\ mcur' = e
    /\ LET n == e[1]
           fails == mounted /\ ~present
       IN /\ mino' = IF e[2] = "file" THEN out[n] ELSE None
          /\ mounted' = mounted /\ ~fails
          /\ mpc' = IF e[2] = "file" /\ ~fails THEN "copy" ELSE "remove"
          /\ keyFiles' = IF e[2] = "file" /\ mounted /\ ~fails
                         THEN keyFiles \cup {n} ELSE keyFiles
          /\ key' = IF e[2] = "file" /\ mounted /\ ~fails
                    THEN [key EXCEPT ![n] = <<>>] ELSE key
          /\ keyKrp' = IF e[2] = "krp" /\ mounted /\ ~fails
                       THEN keyKrp \cup {n} ELSE keyKrp
    /\ mpos' = 0
    /\ UNCHANGED <<opened, present>>
    /\ UNCHANGED <<out, krp, content>> /\ UNCHANGED writer

(* fs::copy reads the next block of the source as it is now and writes it *)
(* to the key; it stops at the end of the source.  A write to the vanished *)
(* key fails and unmounts it (main.rs:495-501).                            *)
CopyStep ==
    /\ mpc = "copy"
    /\ LET n == mcur[1]
           src == content[mino]
       IN \/ /\ mpos < Len(src)
             /\ mounted /\ present
             /\ key' = [key EXCEPT ![n] = WriteAt(@, mpos + 1, src[mpos + 1])]
             /\ mpos' = mpos + 1
             /\ UNCHANGED <<mpc, mounted>>
          \/ /\ mpos < Len(src)
             /\ ~mounted
             /\ mpos' = mpos + 1
             /\ UNCHANGED <<mpc, key, mounted>>
          \/ /\ mpos < Len(src)
             /\ mounted /\ ~present
             /\ mounted' = FALSE
             /\ mpc' = "remove"
             /\ UNCHANGED <<key, mpos>>
          \/ /\ mpos = Len(src)
             /\ mpc' = "remove"
             /\ UNCHANGED <<key, mpos, mounted>>
    /\ UNCHANGED <<yielded, opened, mcur, mino, keyFiles, keyKrp, present>>
    /\ UNCHANGED <<out, krp, content>> /\ UNCHANGED writer

(* fs::remove_file(&path_to_read)? runs whether the copy succeeded or not  *)
(* (main.rs:505).  keysas-out keeps its descriptor on the unlinked inode.  *)
RemoveSource ==
    /\ mpc = "remove"
    /\ LET n == mcur[1]
       IN IF mcur[2] = "file"
          THEN /\ out' = [out EXCEPT ![n] = None]
               /\ UNCHANGED krp
          ELSE /\ krp' = krp \ {n}
               /\ UNCHANGED out
    /\ mpc' = "list"
    /\ UNCHANGED <<yielded, opened, mcur, mino, mpos, key, keyFiles, keyKrp,
                   mounted, present>>
    /\ UNCHANGED content /\ UNCHANGED writer

\* Mutant: the directory stream is taken to end after the first entry.
ListEndEarly ==
    /\ mpc = "list"
    /\ yielded # {} \/ opened \cap InSasOut = {}
    /\ mpc' = "done"
    /\ mounted' = FALSE
    /\ UNCHANGED <<yielded, opened, mcur, mino, mpos, key, keyFiles, keyKrp, present>>
    /\ UNCHANGED <<out, krp, content>> /\ UNCHANGED writer

(* The directory stream ends once every entry present since opendir has    *)
(* been yielded; move_device_out drops the mount (main.rs:371).            *)
ListEnd ==
    /\ mpc = "list"
    /\ opened \cap InSasOut \subseteq yielded
    /\ mpc' = "done"
    /\ mounted' = FALSE
    /\ UNCHANGED <<yielded, opened, mcur, mino, mpos, key, keyFiles, keyKrp, present>>
    /\ UNCHANGED <<out, krp, content>> /\ UNCHANGED writer

\* The user pulls the signed key out.
Vanish ==
    /\ DeviceMayVanish
    /\ present
    /\ present' = FALSE
    /\ UNCHANGED <<mpc, yielded, opened, mcur, mino, mpos, key, keyFiles, keyKrp, mounted>>
    /\ UNCHANGED <<out, krp, content>> /\ UNCHANGED writer

Next ==
    \/ WriteReport \/ OpenOutput \/ WriteBlock \/ WriteDone \/ WriteFails
    \/ MountKey \/ OpenDir \/ CopyStep \/ RemoveSource \/ ListEnd \/ Vanish
    \/ \E e \in Entries : NextEntry(e)

\* keysas-out's output loop and keysas-io's move, once a key is plugged,
\* are threads the OS keeps running; plugging or pulling out the key is
\* the user's and is never forced.
Writer == WriteReport \/ OpenOutput \/ WriteBlock \/ WriteDone \/ WriteFails
Mover == OpenDir \/ CopyStep \/ RemoveSource \/ ListEnd \/ \E e \in Entries : NextEntry(e)

Spec == Init /\ [][Next]_vars /\ WF_vars(Writer) /\ WF_vars(Mover)

-----------------------------------------------------------------------------
TypeOK ==
    /\ wq \in Seq(Incoming)
    /\ wpc \in {"next", "open", "copy"}
    /\ wcur \in Incoming \cup {None}
    /\ wfd \in Incoming \cup {None}
    /\ wpos \in 0..MaxLen
    /\ out \in [Names -> Incoming \cup {None}]
    /\ krp \subseteq Names
    /\ \A i \in Incoming : content[i] \in Seq(Block) /\ Len(content[i]) <= MaxLen
    /\ mpc \in {"wait", "mount", "list", "copy", "remove", "done"}
    /\ yielded \subseteq Entries /\ opened \subseteq Entries
    /\ mcur \in Entries \cup {None}
    /\ mino \in Incoming \cup {None}
    /\ mpos \in 0..MaxLen
    /\ \A n \in Names : key[n] \in Seq(Block) /\ Len(key[n]) <= MaxLen
    /\ keyFiles \subseteq Names /\ keyKrp \subseteq Names
    /\ {mounted, present} \subseteq BOOLEAN

\* The received files output_files accepts for export.
Allowed == {i \in Incoming : OutputAllowed(Md[i])}

(* A file in SAS_OUT that keysas-out is not writing, and a file on the key *)
(* that keysas-io is not copying, is one whole received file.              *)
OutIntact ==
    /\ \A n \in Names : out[n] # None /\ wfd # out[n] =>
           content[out[n]] \in {Content(i) : i \in Incoming}
    /\ \A n \in keyFiles : ~(mpc = "copy" /\ mcur = <<n, "file">>) =>
           key[n] \in {Content(i) : i \in Incoming}

\* File i is still waiting in SAS_OUT, or it is on the key.
Delivered(i) ==
    LET n == Name[i] IN
    \/ out[n] # None /\ content[out[n]] = Content(i)
    \/ n \in keyFiles /\ key[n] = Content(i)

\* File i is on the key, whole.
OnKey(i) == Name[i] \in keyFiles /\ key[Name[i]] = Content(i)

(* Once a signed key has been mounted for egress, every accepted file     *)
(* keysas-out wrote whole ends up on it whole, unless the user pulls the   *)
(* key out: move_files_out walks SAS_OUT to the end of the directory       *)
(* stream and copies each file, which keysas-out finished before the key   *)
(* was plugged (leads-to under the fairness of the two loops).  A file     *)
(* whose io::copy failed is not whole in SAS_OUT, so no move can deliver   *)
(* it whole.                                                               *)
MoveDeliversAll ==
    mpc = "mount" ~>
        \A i \in Allowed : content[i] = Content(i) => OnKey(i) \/ ~present

(* Move semantics of move_files_out: once keysas-out is idle and the move  *)
(* is over, every accepted file is either still in SAS_OUT or on the key;  *)
(* removing the source never loses it.                                     *)
EgressNoLoss ==
    wq = <<>> /\ wpc = "next" /\ mpc = "done" =>
        \A i \in Allowed : Delivered(i)
=============================================================================
