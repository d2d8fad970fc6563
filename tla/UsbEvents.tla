------------------------------ MODULE UsbEvents ------------------------------
(***************************************************************************)
(* The USB event controller of keysas-io (src/keysas-io/src/main.rs,      *)
(* main() lines 637-948).  Every accepted WebSocket connection spawns a    *)
(* worker thread that owns a udev monitor, three product lists (keys_in,   *)
(* keys_out, keys_undef) and the connection to the UI.  Workers share the  *)
(* filesystem busy markers under /var/lock/keysas/ (busy_in, busy_out,     *)
(* ready_in, ready_out).  The transfers themselves (copy_device_in,        *)
(* move_device_out) are one long blocking call each: a worker is in pc     *)
(* "ingress"/"egress" while it runs and the call either returns Ok or an   *)
(* Err that the `?` operator propagates out of the thread.                 *)
(***************************************************************************)
EXTENDS Naturals, Sequences, FiniteSets, SequencesExt

CONSTANTS
    Workers,        \* WebSocket connections, one worker thread each
    Devices,        \* physical USB keys
    Products,       \* "vendor/model/revision" strings
    Product,        \* [Devices -> Products]: the dedup key of a device
    Signed,         \* devices whose MBR gap holds a valid hybrid signature
    Parts,          \* [Devices -> SUBSET (Nat \ {0})]: partition numbers, one udev "add" each
    Malformed,      \* devices whose udev events lack an ID_* or DEVNAME property
    YubikeyEnabled, \* the --yubikey flag
    ClientMayClose, \* the UI may close its WebSocket
    IoMayFail,      \* copy_device_in / move_device_out may return Err
    InitLockDir,    \* possible initial existence of /var/lock/keysas/
    MaxPlugs,       \* bound: plug-ins per device
    MaxForeign,     \* bound: removals of other block devices (loop, dm, ...)
    NoDevice        \* model value: a udev event without a USB identity

ASSUME /\ Signed \subseteq Devices /\ Malformed \subseteq Devices
       /\ Product \in [Devices -> Products]
       /\ Parts \in [Devices -> SUBSET (Nat \ {0})]
       /\ YubikeyEnabled \in BOOLEAN /\ ClientMayClose \in BOOLEAN
       /\ IoMayFail \in BOOLEAN /\ InitLockDir \subseteq BOOLEAN
       /\ MaxPlugs \in Nat /\ MaxForeign \in Nat /\ NoDevice \notin Devices

VARIABLES
    plugged,     \* devices physically present
    plugs,       \* [Devices -> Nat]: plug-ins so far (bounded by MaxPlugs)
    foreign,     \* removals of non-USB block devices so far
    conn,        \* [Workers -> {"absent","alive","dead"}]: the worker thread
    clientGone,  \* [Workers -> BOOLEAN]: the UI end of the socket is closed
    queue,       \* [Workers -> Seq(Event)]: the udev monitor socket
    keys_in, keys_out, keys_undef,  \* [Workers -> SUBSET Products]
    pc,          \* [Workers -> {"idle","ingress","egress"}]
    ui,          \* [Workers -> Snapshot]: the last snapshot the UI received
    lockFiles,   \* [dir, in, out]: /var/lock/keysas/ and its two markers
    started      \* history: [Workers -> SUBSET (Devices \X Nat)]: plug-ins
                 \* whose add event started a transfer or an HMAC refusal

vars == <<plugged, plugs, foreign, conn, clientGone, queue, keys_in,
          keys_out, keys_undef, pc, ui, lockFiles, started>>

-----------------------------------------------------------------------------
(* udev events, as far as the loop tells them apart.  A device plugged in  *)
(* produces one "add" with DEVTYPE=partition per partition, in partition   *)
(* order, whose DEVNAME is the disk's node followed by the partition       *)
(* number; unplugging it produces "remove" events that all carry the same  *)
(* identity.                                                               *)
AddEv(d, k, p) == [type |-> "add", dev |-> d, plug |-> k, part |-> p]
RemEv(d)       == [type |-> "remove", dev |-> d, plug |-> 0, part |-> 0]

Event == [type : {"add"}, dev : Devices, plug : 1..MaxPlugs,
          part : UNION {Parts[d] : d \in Devices}]
         \cup [type : {"remove"}, dev : Devices \cup {NoDevice}, plug : {0}, part : {0}]

\* The decimal digits of n, most significant first.
RECURSIVE Digits(_)
Digits(n) == IF n < 10 THEN <<n>> ELSE Digits(n \div 10) \o <<n % 10>>

\* DEVNAME of partition p of d: the disk's node (named by d) then the digits.
DevName(d, p) == <<d>> \o Digits(p)

\* str::remove_last (main.rs:117-124): the string without its last character.
RemoveLast(s) == IF s = <<>> THEN s ELSE SubSeq(s, 1, Len(s) - 1)

Snapshot == [usb_in : SUBSET Products, usb_out : SUBSET Products,
             usb_undef : SUBSET Products]

\* The Usbkeys record a worker serialises from its lists (main.rs:804-810).
Snap(w, kin, kout, kundef) ==
    [usb_in |-> kin[w], usb_out |-> kout[w], usb_undef |-> kundef[w]]

\* The Usbkeys record with empty lists sent first on every add (702-713).
EmptySnap == [usb_in |-> {}, usb_out |-> {}, usb_undef |-> {}]

\* Whether a websocket.write_message on w may succeed: once the UI closed
\* its end, a write may still be buffered by TCP or may fail.
WriteOutcomes(w) == IF clientGone[w] THEN BOOLEAN ELSE {TRUE}

\* busy_in / busy_out (main.rs:518-542): an if / else-if chain, so the
\* call that creates the directory, or the one that removes the other
\* marker, does not create its own marker.
Busy(f, mine, other) ==
    CASE ~f.dir    -> [f EXCEPT !.dir = TRUE]
      [] f[other]  -> [f EXCEPT ![other] = FALSE]
      [] OTHER     -> [f EXCEPT ![mine] = TRUE]

\* ready_in / ready_out (main.rs:544-556).
Ready(f, mine) == [f EXCEPT ![mine] = FALSE]

\* get_attr_udev fails for events without the three ID_* properties; the
\* remove handler then uses the product "unknown" (main.rs:918-921).
KnownIdentity(d) == d \in Devices \ Malformed

\* is_signed (main.rs:273-324) reads the signature from
\* device.remove_last() (300), which is the disk only when the partition
\* number has one digit; reading another node, or a key already pulled
\* out, makes get_signature fail and is_signed return Ok(false), as it does
\* for a key that carries no valid signature.
IsSigned(d, p) == d \in Signed /\ d \in plugged /\ RemoveLast(DevName(d, p)) = <<d>>

-----------------------------------------------------------------------------
Init ==
    /\ plugged = {}
    /\ plugs = [d \in Devices |-> 0]
    /\ foreign = 0
    /\ conn = [w \in Workers |-> "absent"]
    /\ clientGone = [w \in Workers |-> FALSE]
    /\ queue = [w \in Workers |-> <<>>]
    /\ keys_in = [w \in Workers |-> {}]
    /\ keys_out = [w \in Workers |-> {}]
    /\ keys_undef = [w \in Workers |-> {}]
    /\ pc = [w \in Workers |-> "idle"]
    /\ ui = [w \in Workers |-> EmptySnap]
    /\ lockFiles \in {[dir |-> b, in |-> FALSE, out |-> FALSE] : b \in InitLockDir}
    /\ started = [w \in Workers |-> {}]

Alive(w) == conn[w] = "alive"

\* Broadcast of one udev event sequence to every listening monitor.
Deliver(evs) ==
    queue' = [w \in Workers |-> IF Alive(w) THEN queue[w] \o evs ELSE queue[w]]

(* Environment: a USB key is plugged in. *)
Plug(d) ==
    /\ d \notin plugged
    /\ plugs[d] < MaxPlugs
    /\ plugged' = plugged \cup {d}
    /\ plugs' = [plugs EXCEPT ![d] = @ + 1]
    /\ Deliver(LET ps == SetToSortSeq(Parts[d], <) IN
                [i \in 1..Len(ps) |-> AddEv(d, plugs[d] + 1, ps[i])])
    /\ UNCHANGED <<foreign, conn, clientGone, keys_in, keys_out, keys_undef,
                   pc, ui, lockFiles, started>>

(* Environment: a USB key is pulled out (possibly during its transfer). *)
Unplug(d) ==
    /\ d \in plugged
    /\ plugged' = plugged \ {d}
    /\ Deliver(<<RemEv(d)>>)
    /\ UNCHANGED <<plugs, foreign, conn, clientGone, keys_in, keys_out,
                   keys_undef, pc, ui, lockFiles, started>>

(* Environment: another block device (loop, device-mapper) goes away. *)
ForeignRemove ==
    /\ foreign < MaxForeign
    /\ foreign' = foreign + 1
    /\ Deliver(<<RemEv(NoDevice)>>)
    /\ UNCHANGED <<plugged, plugs, conn, clientGone, keys_in, keys_out,
                   keys_undef, pc, ui, lockFiles, started>>

(* Environment: the UI closes its WebSocket. *)
ClientClose(w) ==
    /\ ClientMayClose
    /\ Alive(w)
    /\ ~clientGone[w]
    /\ clientGone' = [clientGone EXCEPT ![w] = TRUE]
    /\ UNCHANGED <<plugged, plugs, foreign, conn, queue, keys_in, keys_out,
                   keys_undef, pc, ui, lockFiles, started>>

-----------------------------------------------------------------------------
(* A UI connects: accept_hdr, a new udev monitor that only sees later      *)
(* events, empty lists, and the first snapshot (main.rs:638-670).          *)
Connect(w) ==
    /\ conn[w] = "absent"
    /\ conn' = [conn EXCEPT ![w] = "alive"]
    /\ queue' = [queue EXCEPT ![w] = <<>>]
    /\ ui' = [ui EXCEPT ![w] = EmptySnap]
    /\ UNCHANGED <<plugged, plugs, foreign, clientGone, keys_in, keys_out,
                   keys_undef, pc, lockFiles, started>>

\* The worker thread returns an Err (a `?` or a panic): its monitor, its
\* lists and its transfer state are gone with it.
Die(w) ==
    /\ conn' = [conn EXCEPT ![w] = "dead"]
    /\ queue' = [queue EXCEPT ![w] = <<>>]
    /\ pc' = [pc EXCEPT ![w] = "idle"]
    /\ keys_in' = [keys_in EXCEPT ![w] = {}]
    /\ keys_out' = [keys_out EXCEPT ![w] = {}]
    /\ keys_undef' = [keys_undef EXCEPT ![w] = {}]

\* ppoll returned and socket.iter().next() yields the oldest event.
Ready2Handle(w, type) ==
    /\ Alive(w)
    /\ pc[w] = "idle"
    /\ queue[w] # <<>>
    /\ Head(queue[w]).type = type

(* add: writing the all-empty snapshot fails (main.rs:702-713). *)
HandleAddWriteFails(w) ==
    /\ Ready2Handle(w, "add")
    /\ FALSE \in WriteOutcomes(w)
    /\ Die(w)
    /\ UNCHANGED <<plugged, plugs, foreign, clientGone, ui, lockFiles, started>>

(* add: the empty snapshot is sent, then a missing udev property makes a  *)
(* `?` return from the thread (main.rs:715-779).                          *)
HandleAddMalformed(w) ==
    /\ Ready2Handle(w, "add")
    /\ Head(queue[w]).dev \in Malformed
    /\ ui' = [ui EXCEPT ![w] = EmptySnap]
    /\ Die(w)
    /\ UNCHANGED <<plugged, plugs, foreign, clientGone, lockFiles, started>>

(* add: is_signed (main.rs:273-324) returns Ok(true) or Ok(false); the     *)
(* product is already in the matching list, so after the empty snapshot    *)
(* nothing happens (main.rs:790-797, 834-838).                             *)
HandleAddKnown(w) ==
    /\ Ready2Handle(w, "add")
    /\ LET d == Head(queue[w]).dev
       IN /\ KnownIdentity(d)
          /\ Product[d] \in (IF IsSigned(d, Head(queue[w]).part)
                              THEN keys_out[w] ELSE keys_in[w])
    /\ queue' = [queue EXCEPT ![w] = Tail(@)]
    /\ ui' = [ui EXCEPT ![w] = EmptySnap]
    /\ UNCHANGED <<plugged, plugs, foreign, conn, clientGone, keys_in,
                   keys_out, keys_undef, pc, lockFiles, started>>

\* Fault-injection variant of Push: the device node is pushed instead of
\* the product string built from it.
PushDevname(S, d) == S \cup {d}

\* keys_in.push(product) / keys_out.push(product) (main.rs:799, 840).
Push(S, d) == S \cup {Product[d]}

(* hmac_challenge (153-202) for an unsigned key under --yubikey: a known  *)
(* Yubikey response gives Some(name), anything else None; reading the     *)
(* FIDO_DB bucket is .unwrap()ed (185), so an I/O error there panics the   *)
(* worker after busy_in.                                                   *)
HmacOutcomes(signed) ==
    IF YubikeyEnabled /\ ~signed
    THEN {"ok", "refused"} \cup (IF IoMayFail THEN {"panic"} ELSE {})
    ELSE {"ok"}

(* add of a product not yet in the matching list (main.rs:793-858):        *)
(* busy marker, push, snapshot, then for a signed key move_device_out; for *)
(* an unsigned key the HMAC challenge when --yubikey is set, then          *)
(* copy_device_in, or ready_in straight away when the challenge fails.     *)
HandleAddNew(w) ==
    /\ Ready2Handle(w, "add")
    /\ LET e      == Head(queue[w])
           d      == e.dev
           signed == IsSigned(d, e.part)
           mine   == IF signed THEN "out" ELSE "in"
           other  == IF signed THEN "in" ELSE "out"
           kin    == IF signed THEN keys_in
                     ELSE [keys_in EXCEPT ![w] = Push(@, d)]
           kout   == IF signed THEN [keys_out EXCEPT ![w] = Push(@, d)]
                     ELSE keys_out
           busy   == Busy(lockFiles, mine, other)
       IN /\ KnownIdentity(d)
          /\ Product[d] \notin (IF signed THEN keys_out[w] ELSE keys_in[w])
          /\ \E ok \in WriteOutcomes(w) :
               \/ /\ ~ok   \* second write fails; for a signed key .expect panics
                  /\ ui' = [ui EXCEPT ![w] = EmptySnap]
                  /\ lockFiles' = busy
                  /\ Die(w)
                  /\ UNCHANGED started
               \/ /\ ok
                  /\ ui' = [ui EXCEPT ![w] = Snap(w, kin, kout, keys_undef)]
                  /\ \E hmac \in HmacOutcomes(signed) :
                       \/ /\ hmac = "panic"
                          /\ lockFiles' = busy
                          /\ Die(w)
                          /\ UNCHANGED started
                       \/ /\ hmac \in {"ok", "refused"}
                          /\ queue' = [queue EXCEPT ![w] = Tail(@)]
                          /\ keys_in' = kin
                          /\ keys_out' = kout
                          /\ started' = [started EXCEPT ![w] = @ \cup {<<d, e.plug>>}]
                          /\ pc' = IF hmac = "ok"
                                   THEN [pc EXCEPT ![w] = IF signed THEN "egress" ELSE "ingress"]
                                   ELSE pc
                          /\ lockFiles' = IF hmac = "ok" THEN busy ELSE Ready(busy, "in")
                          /\ UNCHANGED <<conn, keys_undef>>
    /\ UNCHANGED <<plugged, plugs, foreign, clientGone>>

\* Fault-injection variant of Forget: the product string the remove
\* handler builds never equals the one the add handler stored.
ForgetNothing(S, d) == S

\* keys_in.clear() / keys_out.clear() for an unknown identity, otherwise
\* retain(|x| *x != product) (main.rs:923-929).
Forget(S, d) == IF KnownIdentity(d) THEN S \ {Product[d]} ELSE {}

(* remove (main.rs:917-943): without an identity the product is "unknown"  *)
(* and keys_in / keys_out are cleared (keys_undef is not); otherwise the   *)
(* product is retained out of all three lists; then a snapshot is sent.    *)
HandleRemove(w) ==
    /\ Ready2Handle(w, "remove")
    /\ LET d    == Head(queue[w]).dev
           kin  == [keys_in EXCEPT ![w] = Forget(@, d)]
           kout == [keys_out EXCEPT ![w] = Forget(@, d)]
           kun  == [keys_undef EXCEPT ![w] = IF KnownIdentity(d) THEN @ \ {Product[d]} ELSE @]
       IN \E ok \in WriteOutcomes(w) :
            \/ /\ ok
               /\ queue' = [queue EXCEPT ![w] = Tail(@)]
               /\ keys_in' = kin
               /\ keys_out' = kout
               /\ keys_undef' = kun
               /\ ui' = [ui EXCEPT ![w] = Snap(w, kin, kout, kun)]
               /\ UNCHANGED <<conn, pc>>
            \/ /\ ~ok
               /\ Die(w)
               /\ UNCHANGED ui
    /\ UNCHANGED <<plugged, plugs, foreign, clientGone, lockFiles, started>>

\* Fault-injection variant of FinishTransfer: the Ok path forgets to put
\* the worker back to waiting for events.
FinishTransferNoReset(w) ==
    /\ Alive(w)
    /\ pc[w] \in {"ingress", "egress"}
    /\ lockFiles' = Ready(lockFiles, IF pc[w] = "ingress" THEN "in" ELSE "out")
    /\ UNCHANGED <<plugged, plugs, foreign, clientGone, ui, started, conn,
                   queue, keys_in, keys_out, keys_undef, pc>>

(* copy_device_in / move_device_out returns (main.rs:818-820, 855-857):    *)
(* Ok is followed by ready_in / ready_out, Err leaves the thread.          *)
FinishTransfer(w) ==
    /\ Alive(w)
    /\ pc[w] \in {"ingress", "egress"}
    /\ \E ok \in (IF IoMayFail THEN BOOLEAN ELSE {TRUE}) :
         \/ /\ ok
            /\ lockFiles' = Ready(lockFiles, IF pc[w] = "ingress" THEN "in" ELSE "out")
            /\ pc' = [pc EXCEPT ![w] = "idle"]
            /\ UNCHANGED <<conn, queue, keys_in, keys_out, keys_undef>>
         \/ /\ ~ok
            /\ Die(w)
            /\ UNCHANGED lockFiles
    /\ UNCHANGED <<plugged, plugs, foreign, clientGone, ui, started>>

-----------------------------------------------------------------------------
Environment ==
    \/ \E d \in Devices : Plug(d) \/ Unplug(d)
    \/ ForeignRemove
    \/ \E w \in Workers : ClientClose(w) \/ Connect(w)

Worker(w) ==
    \/ HandleAddWriteFails(w)
    \/ HandleAddMalformed(w)
    \/ HandleAddKnown(w)
    \/ HandleAddNew(w)
    \/ HandleRemove(w)
    \/ FinishTransfer(w)

Next == Environment \/ \E w \in Workers : Worker(w)

\* A worker thread is runnable whenever ppoll has an event for it or its
\* blocking transfer call has work left: weak fairness per worker.  The
\* environment (users plugging keys, UIs) gets none.
Spec == Init /\ [][Next]_vars /\ \A w \in Workers : WF_vars(Worker(w))

-----------------------------------------------------------------------------
TypeOK ==
    /\ plugged \subseteq Devices
    /\ plugs \in [Devices -> 0..MaxPlugs]
    /\ foreign \in 0..MaxForeign
    /\ conn \in [Workers -> {"absent", "alive", "dead"}]
    /\ clientGone \in [Workers -> BOOLEAN]
    /\ queue \in [Workers -> Seq(Event)]
    /\ keys_in \in [Workers -> SUBSET Products]
    /\ keys_out \in [Workers -> SUBSET Products]
    /\ keys_undef \in [Workers -> SUBSET Products]
    /\ pc \in [Workers -> {"idle", "ingress", "egress"}]
    /\ ui \in [Workers -> Snapshot]
    /\ lockFiles \in [dir : BOOLEAN, in : BOOLEAN, out : BOOLEAN]
    /\ started \in [Workers -> SUBSET (Devices \X (1..MaxPlugs))]

(* The busy markers are the backend's only view of the station (comment at *)
(* main.rs:512-517, spec 4.E): while a worker runs copy_device_in the      *)
(* keysas-in marker exists and keysas-out does not, and symmetrically for  *)
(* move_device_out.  busy_in's else-if chain and a concurrent ready_in of  *)
(* another worker are what can break it.                                   *)
MarkerShowsTransfer ==
    \A w \in Workers : Alive(w) =>
        /\ pc[w] = "ingress" => lockFiles.in /\ ~lockFiles.out
        /\ pc[w] = "egress"  => lockFiles.out /\ ~lockFiles.in

(* A busy marker exists only while a live worker runs the transfer it     *)
(* announces (spec 4.E: the markers tell the station a transfer is under   *)
(* way).  A worker that ends between busy_in / busy_out and ready_in /     *)
(* ready_out (a `?` on a snapshot write, copy_device_in or move_device_out, *)
(* or the panic in hmac_challenge) leaves its marker behind.               *)
MarkerOnlyDuringTransfer ==
    /\ lockFiles.in  => \E w \in Workers : Alive(w) /\ pc[w] = "ingress"
    /\ lockFiles.out => \E w \in Workers : Alive(w) /\ pc[w] = "egress"

(* Once a worker has drained its events and is not transferring, the UI   *)
(* it serves shows exactly the worker's three lists (spec 4.F: a snapshot *)
(* after every change).  The all-empty snapshot sent at the start of      *)
(* every add (main.rs:702-713) is what can leave the UI behind.           *)
UiShowsLists ==
    \A w \in Workers :
        (Alive(w) /\ ~clientGone[w] /\ pc[w] = "idle" /\ queue[w] = <<>>)
            => ui[w] = Snap(w, keys_in, keys_out, keys_undef)

(* Spec 3: a product is in at most one of the ingress, egress and         *)
(* undefined lists at any time.                                            *)
KeysDisjoint ==
    \A w \in Workers :
        /\ keys_in[w] \cap keys_out[w] = {}
        /\ keys_in[w] \cap keys_undef[w] = {}
        /\ keys_out[w] \cap keys_undef[w] = {}

\* Keys whose removal w's monitor has queued but w has not handled yet.
PendingRemoval(w) == {d \in Devices : Contains(queue[w], RemEv(d))}

(* A live worker lists only products of keys that are plugged in or whose *)
(* removal it has still to handle: a product left behind in keys_in or     *)
(* keys_out after its key was pulled makes the dedup test of main.rs:797  *)
(* and 838 skip that key on its next plug-in.                              *)
NoGhostKeys ==
    \A w \in Workers : Alive(w) =>
        keys_in[w] \cup keys_out[w] \cup keys_undef[w]
            \subseteq {Product[d] : d \in plugged \cup PendingRemoval(w)}

(* Every plug-in that reaches a live worker's monitor is eventually       *)
(* served by it -- a transfer starts (or the HMAC challenge refuses it)   *)
(* -- unless the worker dies first.  A product left in a list after its   *)
(* key was removed would make the dedup test of main.rs:797/838 skip it.  *)
PlugServed ==
    \A w \in Workers, d \in Devices \ Malformed, k \in 1..MaxPlugs :
        (Alive(w) /\ \E p \in Parts[d] : Contains(queue[w], AddEv(d, k, p)))
            ~> (<<d, k>> \in started[w] \/ ~Alive(w))

(* Handling a udev event never ends a worker whose UI is still connected  *)
(* (spec 4.F: "a malformed event must not crash the loop"; spec 7).        *)
EventsNeverKillWorker ==
    [][\A w \in Workers :
         (Alive(w) /\ ~clientGone[w] /\ pc[w] = "idle") => conn'[w] = "alive"]_vars
=============================================================================
