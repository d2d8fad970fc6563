# TLA+ models of keysas

This directory models the Keysas USB station. Keysas takes files from an untrusted USB key, passes them through a scanning pipeline, and writes accepted files to a signed (trusted) USB key. The models cover:

- the `keysas-io` daemon, which decides per key whether it is inbound or outbound and runs the transfer;
- the `keysas-out` process, which writes scanned files into the egress staging directory.

Everything here is checked with TLC. Each model is translated from the Rust sources named below.

## 1. The system and its parts

| Part | Source | What it does | Shared state |
|---|---|---|---|
| F. USB event controller | `src/keysas-io/src/main.rs:590-951` | Spawns one thread per WebSocket UI. Each thread opens its own udev monitor, waits in `ppoll`, and handles `add`/`remove` events for block devices. It keeps three `Vec<String>` lists of products (`vendor/model/revision`): `keys_in`, `keys_out`, `keys_undef`. It sends a `Usbkeys` JSON snapshot to its UI. | The busy markers `/var/lock/keysas/keysas-in` and `keysas-out`; every monitor sees every event |
| C/D. Signature read and check | `main.rs:213-324` (`get_signature`, `is_signed`) | Reads the signature stored after the MBR and verifies the hybrid signature over `vendor/model/revision/serial/out`. Always returns `Ok(bool)`. | none |
| E. Ingress transfer | `main.rs:326-355, 381-472` (`copy_device_in`, `copy_files_in`) | Mounts the key read-only and creates `/var/local/in/.lock`. A crossbeam scope spawns one thread per file. Each thread copies to `TMP_DIR/<name>`, then renames into `SAS_IN`. On error it writes `<name>.ioerror` and unmounts early. After the scope the lock is removed and the key unmounted. | `SAS_IN`, `TMP_DIR`, `.lock`, the mount point |
| E. Egress transfer | `main.rs:357-379, 474-510` (`move_device_out`, `move_files_out`) | Mounts the signed key read-write. For each entry of `SAS_OUT` it copies the entry to the key and removes it; a failed copy unmounts the key. | `SAS_OUT`, the mount point |
| keysas-out writer | `src/keysas-core/src/keysas-out/main.rs:231-402` | For each file received from transit, writes `<name>.krp`. Then, if every check passed (yara only counts under `--yara_clean`), writes `<name>` into `SAS_OUT`. | `SAS_OUT` |
| A/B. Hybrid PKI | `src/keysas_lib/src/pki.rs` | Generates Ed25519 + Dilithium5 key pairs, builds CSRs and certificates, and stores PKCS#8 / PEM files. | key and certificate files |
| Admin store | `src/keysas-admin/src-tauri/src/store.rs` | SQLite tables for SSH keys, stations and CA settings. | the database |
| Tray service interface | `src/keysas-firewall/tray-app/src-tauri/src/service_if.rs` | Encodes file/USB authorisation requests for the firewall service. | none |

How the parts interact:

- A key is plugged. Every live worker receives one `add` event per partition.
- The worker first sends an all-empty snapshot.
- It then reads the udev identity and calls `is_signed`.
- **Unsigned key:** busy_in, push onto `keys_in`, snapshot, then (with `--yubikey`, and only if the HMAC challenge succeeds) `copy_device_in`, then `ready_in`.
- **Signed key:** busy_out, push onto `keys_out`, snapshot, `move_device_out`, `ready_out`.
- A `remove` event drops the product from the lists and sends a snapshot.
- Any `?` error or panic ends that worker thread, and with it the UI's connection.
- `keysas-out` is a separate process. It writes `SAS_OUT` at any time, including while a worker moves `SAS_OUT` to a key.

## 2. Modules

### `UsbEvents`: the worker loop (part F, with C/D as a verdict)

**State**

| Variable | Models |
|---|---|
| `conn` | The UI connection of each worker. |
| `queue` | The events pending on each worker's udev monitor. |
| `keys_in`, `keys_out`, `keys_undef` | The three lists, modelled as sets: the `contains` check before `push` keeps them duplicate-free. |
| `pc` | Idle, or running a transfer. |
| `ui` | The last snapshot the UI received. |
| `lockFiles` | The lock directory and the two markers. |
| `plugged`, `plugs`, `foreign` | The environment: keys currently plugged, how often each key was plugged, and foreign removals. |

**Actions**

- One action per handler outcome:
  - `HandleAddWriteFails`: the first write fails.
  - `HandleAddMalformed`: a missing udev property leads to `?`.
  - `HandleAddKnown`: the product is already listed.
  - `HandleAddNew`: busy marker, push, snapshot, HMAC, start the transfer. This includes the failing second write, and the `.expect("bunbun")` panic on a signed key.
  - `HmacOutcomes`: `hmac_challenge` gives a user (`"ok"`) or `None` (`"refused"`). With `IoMayFail`, the `.unwrap()` on the FIDO_DB read (main.rs:185) may also panic the worker after `busy_in` (`"panic"`).
  - `HandleRemove`.
- `FinishTransfer` models the transfer call returning:
  - `Ok` is followed by `ready_*`.
  - `Err` ends the worker.
- `is_signed` is abstracted to its verdict: the key is in `Signed`, it is still plugged, and the node it reads is the disk.
  - Each `add` carries its partition number (`Parts[d]` is the set of partition numbers).
  - The node `is_signed` reads is `RemoveLast(DevName(d, p))`, where `DevName` is the disk followed by the partition's decimal `Digits`.
  - That node is the disk only for partitions 1-9. For partition 14 it names partition 1, so the signature is not found.
- The transfer itself is one step here; it is detailed in `IngressCopy` and `Egress`.

**Fairness:** weak fairness per worker. The worker thread runs whenever `ppoll` returns an event, or whenever its blocking transfer has work left. Users and UIs get no fairness.

### `IngressCopy`: `copy_device_in`, run by one or several workers

**State**

| Variable | Models |
|---|---|
| `parent`, `mounted`, `unwalked` | Per worker (constant `Workers`): its position (mount, lock, walk, join, unlock, remove, unwind, done, err, panicked), its own mount, and the entries its WalkDir has still to yield. |
| `thr`, `pos`, `fd` | One state per thread, a pair (worker, file): its position, the blocks it has copied, and the inode it writes. |
| `tmpdir`, `sasin` | Which inode sits at `TMP_DIR/<name>` and at `SAS_IN/<name>`. |
| `content` | The contents of each inode. |
| `ioerror` | The names that have an `.ioerror` report. |
| `lock`, `present` | The `.lock` file, shared by every worker, and whether the key is still plugged in. |

Files are inodes: `fs::copy` opens the temporary path with `O_TRUNC`, so threads of files with the same sanitised name share one inode. A descriptor keeps writing after a rename. Block `i` of file `f` is `<<f, i>>`.

**Actions**

- Parent, per worker `w`: `Mount`, `CreateLock`, `Walk(w, f)` (a WalkDir `Err`, from a directory of the key that cannot be read (constant `Unreadable`) or a readdir on a vanished key, is dropped by `filter_map(|e| e.ok())` and the file is skipped; `e.metadata().expect` panics once the key is unmounted or, on a vanished key, with an I/O error; otherwise the thread is spawned), `WalkEnd`, `Join` (the scope joins; a panicked thread panics the worker), `CheckLock` (`Path::new(LOCK).exists()`, main.rs:467; no lock: return and unmount), `RemoveLock` (`remove_file(LOCK)?`; if another worker removed it in between, `Err` skips the unmount).
- Threads:
  - `ThreadStart(f)`: the UTF-8 `unwrap`, `metadata`, and the `fs::copy` opens.
  - `CopyBlock(f)`.
  - `Rename(f)`.
  - `CopyFailed`, the error path: `.ioerror` plus DETACH unmount.
- Environment: `Unplug`.

Several workers exist because `main` spawns one worker per accepted WebSocket connection (main.rs:637-640). Each worker has its own udev monitor, so every worker sees the same inbound key and copies it into the one `TMP_DIR` and `SAS_IN`.

**Abstract spec `AtomicIngress`.** This is what a transfer promises to `keysas-in`, which watches `SAS_IN`:

- `Begin` sets `busy` (the lock appears).
- `Publish(f)` puts file `f` under its name while busy. It is one step, and the file is whole.
- `End` clears `busy`.
- `Abort` is a panic, which may leave the lock behind.
- Weak fairness on ending.

`IngressCopy` refines it through this mapping:

- `published[n]` is the file whose whole content the inode at `SAS_IN/n` holds, or `"torn"`.
- `busy` is `lock`.
- `ended` holds once every worker has returned or panicked.

The mapping is checked as the property `AtomicIngressSpec`.

**Fairness:** weak fairness on all program steps (the OS schedules every runnable thread), none on `Unplug`.

### `Egress`: `keysas-out` writing, `keysas-io` moving

**State**

| Variable | Models |
|---|---|
| `wq`, `wpc`, `wcur`, `wfd`, `wpos` | The writer (`output_files`): files still to receive, its position, the current file, its inode, and the blocks written. |
| `out`, `krp`, `content` | `SAS_OUT`: the file inode at each name, the names with a report, and inode contents. |
| `mpc`, `opened`, `yielded`, `mcur`, `mino`, `mpos` | The mover (`move_files_out`): its position, the `read_dir` stream, and the entry it is copying. |
| `key`, `keyFiles`, `keyKrp` | The signed key's contents. |
| `mounted`, `present` | The mount, and whether the key is still plugged in. |

**Actions**

- Writer:
  - `WriteReport`: report, then the verdict test.
  - `OpenOutput`: create, no truncate.
  - `WriteBlock`.
  - `WriteDone`.
  - `WriteFails`: `io::copy` fails part way, or the `BufWriter`'s flush on drop fails (constant `WriteMayFail`). The error is logged and the writer goes on with the next file, so `SAS_OUT/<name>` keeps only the blocks already written.
- Mover:
  - `MountKey`.
  - `OpenDir`.
  - `NextEntry(e)`: `read_dir` yields an entry, and `fs::copy` opens it.
  - `CopyStep`: read the next block, reaching end-of-file, or the early unmount when the key is gone.
  - `RemoveSource`.
  - `ListEnd`: the stream ends and the key is unmounted on drop.
- Environment: `Vanish`.
- The `read_dir` stream must return every entry that existed when the directory was opened. It may or may not return entries created later (POSIX readdir semantics).

**Constant `Concurrent`** chooses whether the signed key may be plugged while `keysas-out` is still writing:

- In the real system this is always possible.
- `FALSE`, as in `Egress_pass`, isolates the mover's own logic; `TRUE` reaches the race listed under further violations.

**Fairness:** weak fairness on the writer's steps (`Writer`) and on the mover's steps (`Mover`), none on `Vanish`. Both are loops of blocking system calls that the OS keeps scheduling. `MoveDeliversAll` is the liveness property: once the key is mounted, every accepted file that `keysas-out` wrote whole eventually lies whole on the key, unless the key was pulled out. It depends on `read_dir` returning every entry present at `OpenDir`.

### `Pki`: the root CA files, key loading and leaf issuance

`Pki` models `src/keysas_lib/src/pki.rs`:

- `184-214`: `create_pki_dir`.
- `318-373`: `generate_root`.
- `375-494`: `generate_signed_keypair` and `generate_cert_from_csr`.
- `558-600` and `668-728`: `load_keys`.
- `614-650`: `generate_csr`.
- `158-182` and `216-242`: `validate_input_cert_fields` and the validity of `construct_tbs_certificate`.
- `652-665` and `777-799`: `message_sign` and `message_verify`.

A key is `<<algorithm, "root" or "leaf", n>>`. A certificate records three things: the key it certifies, the key that signed it, and the OID of its outer `signature_algorithm`.

State:

- `dirs`: the directories of the PKI tree that exist.
- `files`: the four root files under `CA/`. Each one is `Absent`, or holds the output of call *g*, either `"whole"` or truncated (`"empty"`).
- `pc`, `idx`: where the current call is.
- `calls`, `op`, `result`: the calls so far, and what the last one returned.
- `ca`: the CA key pair the caller holds. It is either the `hk` that `generate_root` returned, or the halves it loaded.
- `leaves`: the calls of `generate_signed_keypair` so far.
- `issued`: a history variable holding the certificates returned so far.
- `signed`: a history variable holding the message signatures returned so far.

Actions:

- `CreatePkiDir`: the `is_dir` check on the argument.
- `MkDir`: each `create_dir_if_not_exist`.
- `MkDirDone`: `create_pki_dir` returns `Ok(())`.
- `GenerateRoot`: the two key generations, which may fail before anything is written. `generate_root_ed25519` builds its TBS certificate first, so an overflowing validity panics (`Panic`) before anything else.
- `WriteFile`: one key or certificate file. It may fail before the file is created (`"before"`, or `CA/` missing) or after it is truncated (`"after"`).
- `WriteDone`: `generate_root` returns `Ok(hk)`.
- `LoadClassic`, `LoadPq`: `load_keys` of `CA/root-priv-*.p8`. A whole file of call *g* gives the key of call *g*. A missing or truncated file is an `Err`, and the caller then holds no key of that algorithm.
- `GenerateSignedKeypair`: a fresh leaf pair. Each half gets a CSR (`Csr`) and a certificate (`CertFromCsr`) under the CA pair the caller holds, or the call fails with `?`.
  - The Ed25519 branch signs with the CA's Ed25519 key and labels the certificate `DILITHIUM5_OID` (pki.rs:462).
  - The certificates are returned to the caller. `pki.rs` writes nothing for them.
  - Each certificate records the `validity` it was asked for (`days`) and the window `construct_tbs_certificate` computed (`window`).
  - With overflow checks on (`OverflowChecks`), an overflowing validity panics in the first certificate.

- `MessageSignClassic`, `MessageSignPq`: `message_sign` with a half of the CA pair the caller holds, over one message (`signed` is the history of signatures). The Ed25519 half signs a SHA-512 prehash (`sign_prehashed`, Ed25519ph). `message_verify` (`MessageVerify`) checks the Ed25519 half with `Keypair::verify`, which is plain Ed25519. `MaxSigns` bounds the calls.

Certificate validity (`CertificateFields`, `Overflows`, `TbsPanics`, `DurUnits`):

- `validate_input_cert_fields` gives the fields a call may receive: any `u32` validity. The country is checked and cut to two letters; no property depends on it.
- `validity * 60 * 60 * 24` is a `u32` product (pki.rs:221). Past `u32::MAX` it panics in a build with overflow checks (the dev profile) and wraps modulo 2^32 without them (the release profile). No profile is set in the repository, so both are builds of this code.
- TLC's integers stop at 2^31, so durations are counted in units of 128 s. Since 86400 = 128 * 675 and 2^32 = 128 * 2^25, the wrapped product is 128 * (d * 675 % 2^25).
- `ValidityInputs` holds numbers TLC can represent (below 2^31). All of them parse as a `u32`, so `parse` never fails in the model.

Every failure returns `Err` through `?` and leaves the files as they are.

`ValidityWindow` (checked in `Pki_validity`) says that every issued certificate's window is its `validity` days (spec 75). `IssuedVerifies` is the property checked in `Pki_oid`. It says that every signature the library produces verifies:

- A certificate verifies the way the verifier of a signed key checks it (spec 4.D and 54). The `signature_algorithm` OID selects the root certificate on disk, and the signature verifies only under the key that root certificate holds.
- A message signature verifies with `message_verify` under the same key (spec 215).

`CheckAlgs` restricts the property to the leaf halves it checks.

**Fairness:** none is assumed, since no liveness is checked.

### `Store`: the admin application's SQLite store

`Store` models `src/keysas-admin/src-tauri/src/store.rs`. Every function holds the `STORE_HANDLE` mutex for its whole body, so each one is a single action.

State:

- `handle`: the connection, `"none"` or `"open"`.
- `ssh`, `station`: the tables, as sequences of rows in rowid order, the order `iterate` returns them.
- `ca`: the row count of `ca_table`.
- `restarts`: the restarts so far.
- `ret`: what the last call returned.
- `lastSet`: a history variable holding the address of each station's last successful `set_station`.

Actions:

- `init_store`: may fail to open.
- `get_ssh`.
- `set_ssh(public, private)`: needs both paths to be files.
- `set_station(name, ip)`.
- `get_station_ip_by_name(name)`.
- `get_station_list`.
- `set_pki_config`.
- `Restart`: the application exits. The database file keeps its rows.

The queries are built with `format!`, and a value that holds a quote makes them fail (`Quoted`). The getters concatenate the column of every matching row with `push_str`. That concatenation is modelled as the sequence of those values.

**Fairness:** none. The store only answers calls, and no liveness is checked.

## 3. Runs and what they show

All runs finish in seconds. `CHECK_DEADLOCK FALSE` appears only where the system really stops. The UsbEvents loop waits in `ppoll` once the bounded environment is done; each transfer call returns; `keysas-out` blocks in `recv`.

| Run | Expect | Checks | Shows |
|---|---|---|---|
| UsbEvents_pass | pass | TypeOK, PlugServed | One UI that may close, a signed and an unsigned key plugged, pulled out and plugged again, and a foreign removal: every plug-in that reaches the worker's monitor is eventually served (a transfer starts or the HMAC challenge refuses it), unless the worker dies. |
| UsbEvents_faults | pass | NoGhostKeys | Two UIs, a malformed device, the HMAC challenge on, failing transfers and FIDO_DB reads, and a missing lock directory: no product outlives its key in a live worker's lists. |
| UsbEvents_malformed | violation | EventsNeverKillWorker | A udev event without ID_* properties ends the worker. |
| IngressCopy_pass | pass | TypeOK, LockSpansThreads, AtomicIngressSpec | One worker's three threads copy while the mount may fail and the key may vanish. The scope joins every thread before unlock and return, so `.lock` covers every copy thread. The copy implements `AtomicIngress`: no partial file is published, and the call ends. |
| IngressCopy_walkerror | violation | NoSilentLoss | A file in a directory of the key that WalkDir cannot read is dropped by `filter_map(\|e\| e.ok())` (main.rs:384): `copy_files_in` returns `Ok` with the file neither in `SAS_IN` nor reported by a `.ioerror`. A readdir failing on a key pulled out mid-walk does the same. |
| IngressCopy_twoworkers | violation | AtomicIngressSpec | Two UI connections mean two workers copy the same key. One worker's `fs::copy` truncates the `TMP_DIR` inode the other has filled, and the other renames the empty file into `SAS_IN`. |
| IngressCopy_badname | violation | NoPanic | A non-UTF-8 file name panics the worker. |
| Egress_pass | pass | TypeOK, MoveDeliversAll | `keysas-out` finishes its four files (a write may fail part way) before the signed key is plugged, and the key may be pulled out: once the key is mounted, every accepted file written whole eventually reaches it whole, unless the key is gone. |
| Store_replace | violation | LookupIsLastSet | `REPLACE INTO` on a table without a key appends. A station registered twice is looked up as its two addresses concatenated (store.rs:166, 195-211). |
| Pki_pass | pass | TypeOK, OkIsComplete | Up to four calls of `create_pki_dir` / `generate_root` fail at any step, with key loads, one leaf issuance and one message signature in between. The build has overflow checks on, and the validity is 49710 or 49711 days, so both calls may also panic. An `Ok(hk)` always leaves four whole files from that call, whatever earlier calls left. |
| Pki_validity | violation | ValidityWindow | In a release build, a leaf pair issued for 49711 days gets certificates valid for 63104 s, about 17.5 hours, because `validity * 86400` wraps in `u32` (pki.rs:221). With 49710 days the window is right. |
| Pki_oid | violation | IssuedVerifies | With a whole root CA, the Ed25519 leaf certificate names Dilithium5 as its signature algorithm. It is then checked against the Dilithium5 root and fails (pki.rs:462). |

Further violations are reached by changing constants of the configurations above, and each was checked with TLC. The properties are kept in their modules because each states what the spec promises. A passing run that left out the case that breaks one would show nothing, and the run list is at its limit of twelve, so they are not runs of their own.

- **SasInIntact** (`IngressCopy`, `Names <- OneName`, `Name <- SameName`, one worker, no fault): the destination name is only the sanitised file name. Two files with one name (`a/x` and `b/x`, or `café` and `cafe`) share `TMP_DIR/<name>`, which is opened with `O_TRUNC`, so `SAS_IN` gets a file made of blocks of both (main.rs:396). Spec scenario 5 says each file arrives exactly once.
- **KeysDisjoint** (`Parts <- CloudImage` in `UsbEvents_pass`): a signed key with partitions 1 and 14 is served out for partition 1. For partition 14, `remove_last` gives the node of partition 1 and the signature is not found, so the trusted key is also copied in, and its product sits in `keys_out` and `keys_in` (main.rs:300).
- **OutIntact** (`Egress_pass` with `INVARIANT OutIntact`): `io::copy` into `SAS_OUT` fails after one block. The error is only logged (keysas-out main.rs:337), so the truncated file stays beside a report that says it passed, and the mover exports it.
- **OutIntact** (`Egress_pass` with `Concurrent = TRUE`, no vanishing key, no failing write): the key is plugged while `keysas-out` writes a file. `keysas-io` copies and deletes the file still being written, so the key gets a truncated file and the remaining blocks go to an unlinked inode (main.rs:492).
- **IssuedVerifies** (`MaxLeaves = 0`, `MaxSigns = 1` in `Pki_oid`): the classical `message_sign` produces an Ed25519ph signature, which `message_verify`'s plain Ed25519 check rejects (pki.rs:655 and 661). Spec 215 says `verify(sign(m))` holds for both halves. This is recorded as a finding of `Pki_oid`.
- **IssuedVerifies** (`CheckAlgs <- PqOnly`, `FailPoints <- AllFailures` in `Pki_oid`): `generate_root` writes both new key files, then fails before the certificates. The caller loads the new keys, and the Dilithium5 leaf it issues does not verify against the root certificate on disk, which is missing or from an older call (pki.rs:343-370).
- **UiShowsLists** (`Parts <- TwoPartitions` in `UsbEvents_pass`): the second partition's `add` sends the all-empty snapshot and nothing after it (main.rs:702-713).
- **KeysDisjoint** (`Product <- SharedProduct`): a signed and an unsigned stick of one model put one product in both `keys_in` and `keys_out` (main.rs:758-763, 797, 838).
- **MarkerOnlyDuringTransfer** (`UsbEvents_pass` with `INVARIANT MarkerOnlyDuringTransfer`): the UI closes after `busy_in`, and the snapshot write's `?` ends the worker with `keysas-in` left set. Every `?` or panic between `busy_*` and `ready_*` does the same: main.rs:811 and 853, `copy_device_in` at 818, `move_device_out` at 855, and `hmac_challenge` at 185. The station then reads a transfer in progress that no worker runs (spec 4.E, status files).
- **MarkerShowsTransfer** (`InitLockDir = {TRUE, FALSE}` in `UsbEvents_pass`; `/var/lock` is a tmpfs, so the missing directory is the normal first boot): the first `busy_in` after boot only creates `/var/lock/keysas`, not the marker (main.rs:518-522).
- **MarkerShowsTransfer** (`Workers <- TwoWorkers`, no faults): one worker's `busy_out` removes `keysas-in` during the other worker's ingress and creates nothing (main.rs:534-535).
- **NoPanic** (`IngressCopy`, `DeviceMayVanish = TRUE`, no bad name): a thread's early unmount makes the parent's `e.metadata().expect` panic (main.rs:385, 442).
- **MountReleased** (`IngressCopy_pass` with `LockMayFail = TRUE`): `copy_files_in(..)?` skips `into_unmount_drop` (main.rs:339-341).
- **MountReleased** (`IngressCopy_twoworkers`): a worker sees `.lock`, and the other worker removes it first. `remove_file(LOCK)?` then fails, and the key stays mounted (main.rs:467-468).
- **EgressNoLoss** (`Egress_pass` with `WriteMayFail = FALSE`): the source is removed after a failed copy. After the early unmount, later files are copied into the unmounted directory and removed too (main.rs:492-505).
- **OutIntact** (`Egress`, `Name <- TwoSame`, `Length <- LongThenShort`): `keysas-out` reopens an existing output file without truncation, and the old tail survives (keysas-out main.rs:317, and the report at 263).

The verdict test of `output_files` (keysas-out main.rs:307-311) is modelled as the guard `OutputAllowed`, and no property checks it: a rejected file is never written, so any property about rejected content would restate that guard.

Every property of a passing run has a mutant in `PROJECT.json`. A mutant is a variant operator in the module, modelling a plausible bug (a dropped guard, an off-by-one, a missing unmount or reset, threads not joined), and TLC finds the property violated with it.

## 4. Bounds

| Module | Bounds | Why they are enough |
|---|---|---|
| UsbEvents | Two keys, each plugged at most twice (`MaxPlugs`); one foreign removal; one or two UIs; partitions {1}, {1, 2} or {1, 14}. | Plugging twice is the least that reaches "unplug then replug" and the dedup test. Two UIs are the least that share markers. |
| IngressCopy | Two or three files of two blocks each; one or two workers. | Two blocks are the least for a torn file. Two threads are the least for a shared inode, and for an unmount racing the walk. Two workers are the least that share `TMP_DIR` and `.lock`. |
| Store | Three names (one quoted), two addresses, two paths (one not a file); five rows per table; one restart. | Two `set_station` calls on one name already concatenate. A restart between them shows the rows outlive the connection. |
| Egress | Two to four received files with lengths 1–2; two names. | Enough for a rejected file sharing an accepted file's name, a shorter file reusing a name, and a copy racing a write. |
| Pki | Four calls (`MaxCalls`), every failure point enabled, one leaf issuance (`MaxLeaves`), one message signature (`MaxSigns`, none in `Pki_oid` and `Pki_validity`); three calls in `Pki_oid`, two in `Pki_validity`; validities 49710 and 49711 days, the last one that fits in `u32` seconds and the first that does not. | Four calls reach a directory creation, a failed `generate_root` that leaves a half pair, and a retry that succeeds over it. Loads are not bounded, since they only set `ca`. One issuance is enough, because every issuance produces both halves. |

## 5. Not modelled, and why

- **Signature bytes, base64 and the cryptographic checks** (parts C/D): only their verdict matters to the controller. The length check in `get_signature` (main.rs:230) allows 7684 bytes after the 4-byte length at offset 512, which is 8 bytes past the region of spec 4.C. It is a single computation with no state.
- **PKI field values, passwords and message signing**:
  - Of the fields `construct_tbs_certificate` computes, only the validity window is modelled. The serial number, the names and the public-key bytes are constant or opaque data.
  - Validity strings that are not numbers, or that are above 2^31, cannot be represented in TLC. Their `parse` error is a plain `Err`.
  - Passwords are not modelled: there is one password, so a decrypt failure is not reached.
  - `message_sign` and `message_verify` are modelled only by the key and the scheme they use, over one message.
  - The PQ `save_keys` labels its envelope with `ED25519_OID` (pki.rs:731). `load_keys` never reads that OID back, so the label changes nothing the model tells apart.
  - The cryptography itself is out of scope: a key is identified by the call that generated it.
- **The tray service interface** (`service_if.rs`) is out of the spec's scope (spec 1). It holds a mailslot handle. A reader thread forwards each parsed `FileUpdateMessage` to `AppController`, and `send_msg` posts to the service. `AppController`, `libmailslot` and the Windows service are not in the repository, so a model would be all environment. The authorisation byte mapping is a two-line `match` with no interleaving or state.
- **Landlock, the command line and logging** are not modelled. The HMAC challenge is modelled only by its outcomes: a user, `None`, or the panic of its `.unwrap()`.
- **The `keys_undef` branch and the `Err` arm of `is_signed`'s match** (main.rs:859-913) are not modelled, because they are unreachable. `value` is a `bool`, so `if !value … else if value` leaves nothing for the final `else`. `is_signed` returns `Ok(false)` on every failure and never `Err`. So `keys_undef` stays empty, and the `Err` arm's variant of the ingress path, which has no `ready_in` after a refused HMAC, never runs.

## 6. Plan for the next steps

1. Composing UsbEvents with IngressCopy, so that the markers and `.lock` are seen together.
2. A passing run for `Store`, with properties of the store that hold.
3. Runs of their own for the further violations above, starting with `EgressNoLoss` (a file removed from `SAS_OUT` although its copy failed), `MarkerShowsTransfer` and `MarkerOnlyDuringTransfer`.

The run list is at its limit of twelve, so each of these would replace a run.
