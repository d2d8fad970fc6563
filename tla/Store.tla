-------------------------------- MODULE Store --------------------------------
(***************************************************************************)
(* The admin application's SQLite store (src/keysas-admin/src-tauri/src/  *)
(* store.rs).  One process-wide connection guarded by a mutex; three       *)
(* tables without a key.  Every function takes the lock for its whole      *)
(* body, so each is one atomic step here.  A table is the sequence of its  *)
(* rows in rowid order, the order `connection.iterate` returns them.  A    *)
(* string built by push_str over the rows is the sequence of the values   *)
(* appended; the empty sequence is the empty string.  The database file    *)
(* outlives the process: a restart drops the connection, not the rows.     *)
(***************************************************************************)
EXTENDS Naturals, Sequences

CONSTANTS
    Names,       \* station names
    Ips,         \* station addresses
    Paths,       \* SSH key paths
    NotFiles,    \* paths that are not regular files (is_file is false)
    Quoted,      \* values holding a quote: the interpolated SQL does not parse
    OpenMayFail, \* sqlite::open or the CREATE TABLE batch may fail
    MaxRows,     \* bound on the rows of a table
    MaxRestarts  \* bound on restarts of the admin application

VARIABLES
    handle,      \* STORE_HANDLE: "none" or "open"
    ssh,         \* ssh_table: Seq([name, path])
    station,     \* station_table: Seq([name, ip])
    ca,          \* ca_table: number of (param, value) rows
    restarts,
    ret,         \* what the last call returned
    lastSet      \* history: the ip of the last successful set_station per name

vars == <<handle, ssh, station, ca, restarts, ret, lastSet>>

NoIp == "none"
Ok(v) == [ok |-> TRUE, val |-> v]
Err == [ok |-> FALSE, val |-> <<>>]

\* `execute` of a query built with format!: it fails when a value holds a quote.
Parses(values) == values \cap Quoted = {}

\* The values of column col of the rows whose name is name, in rowid order:
\* what the iterate callbacks push_str one after the other.
Column(table, name, col) ==
    LET rows == SelectSeq(table, LAMBDA r : r.name = name)
    IN  [i \in 1..Len(rows) |-> rows[i][col]]

Init ==
    /\ handle = "none"
    /\ ssh = <<>>
    /\ station = <<>>
    /\ ca = 0
    /\ restarts = 0
    /\ ret = Ok(<<>>)
    /\ lastSet = [n \in Names |-> NoIp]

(* init_store (40-70): Ok at once if a connection exists; else open the    *)
(* file and run CREATE TABLE IF NOT EXISTS, which keeps existing rows.     *)
init_store ==
    /\ \/ handle = "open" /\ ret' = Ok(<<>>) /\ UNCHANGED handle
       \/ handle = "none" /\ handle' = "open" /\ ret' = Ok(<<>>)
       \/ handle = "none" /\ OpenMayFail /\ ret' = Err /\ UNCHANGED handle
    /\ UNCHANGED <<ssh, station, ca, restarts, lastSet>>

(* get_ssh (73-126): concatenate the path of every 'public' row, then of   *)
(* every 'private' row; Ok only if both strings are non-empty.             *)
get_ssh ==
    /\ LET pub  == Column(ssh, "public", "path")
           priv == Column(ssh, "private", "path")
       IN ret' = IF handle = "open" /\ pub # <<>> /\ priv # <<>>
                 THEN Ok(<<pub, priv>>) ELSE Err
    /\ UNCHANGED <<handle, ssh, station, ca, restarts, lastSet>>

(* set_ssh (130-154): both paths must be files; then REPLACE INTO appends  *)
(* a 'public' and a 'private' row, since ssh_table has no unique key.      *)
set_ssh(public, private) ==
    /\ Len(ssh) + 2 <= MaxRows
    /\ IF public \notin NotFiles /\ private \notin NotFiles /\ handle = "open"
          /\ Parses({public, private})
       THEN /\ ssh' = ssh \o <<[name |-> "public", path |-> public],
                               [name |-> "private", path |-> private]>>
            /\ ret' = Ok(<<>>)
       ELSE ret' = Err /\ UNCHANGED ssh
    /\ UNCHANGED <<handle, station, ca, restarts, lastSet>>

(* set_station (158-178): REPLACE INTO station_table appends a row.        *)
set_station(name, ip) ==
    /\ Len(station) < MaxRows
    /\ IF handle = "open" /\ Parses({name, ip})
       THEN /\ station' = Append(station, [name |-> name, ip |-> ip])
            /\ lastSet' = [lastSet EXCEPT ![name] = ip]
            /\ ret' = Ok(<<>>)
       ELSE ret' = Err /\ UNCHANGED <<station, lastSet>>
    /\ UNCHANGED <<handle, ssh, ca, restarts>>

(* get_station_ip_by_name (183-224): concatenate the ip of every row with  *)
(* that name; Ok only if the result is non-empty.                          *)
get_station_ip_by_name(name) ==
    /\ LET ips == Column(station, name, "ip")
       IN ret' = IF handle = "open" /\ Parses({name}) /\ ips # <<>>
                 THEN Ok(ips) ELSE Err
    /\ UNCHANGED <<handle, ssh, station, ca, restarts, lastSet>>

(* get_station_list (228-272): one Station per row of station_table.       *)
get_station_list ==
    /\ ret' = IF handle = "open" THEN Ok(station) ELSE Err
    /\ UNCHANGED <<handle, ssh, station, ca, restarts, lastSet>>

(* set_pki_config (276-300): REPLACE INTO ca_table appends five rows.      *)
set_pki_config(values) ==
    /\ ca + 5 <= MaxRows
    /\ IF handle = "open" /\ Parses(values)
       THEN ca' = ca + 5 /\ ret' = Ok(<<>>)
       ELSE ret' = Err /\ UNCHANGED ca
    /\ UNCHANGED <<handle, ssh, station, restarts, lastSet>>

\* The admin application exits and starts again: STORE_HANDLE is None,
\* the database file keeps its rows.
Restart ==
    /\ restarts < MaxRestarts
    /\ restarts' = restarts + 1
    /\ handle' = "none"
    /\ ret' = Ok(<<>>)
    /\ UNCHANGED <<ssh, station, ca, lastSet>>

Next ==
    \/ init_store
    \/ get_ssh
    \/ \E pub, priv \in Paths : set_ssh(pub, priv)
    \/ \E n \in Names, ip \in Ips : set_station(n, ip)
    \/ \E n \in Names : get_station_ip_by_name(n)
    \/ get_station_list
    \/ \E dir \in Paths : set_pki_config({dir})
    \/ Restart

Spec == Init /\ [][Next]_vars

-----------------------------------------------------------------------------
TypeOK ==
    /\ handle \in {"none", "open"}
    /\ ssh \in Seq([name : {"public", "private"}, path : Paths])
    /\ station \in Seq([name : Names, ip : Ips])
    /\ ca \in 0..MaxRows
    /\ restarts \in 0..MaxRestarts
    /\ lastSet \in [Names -> Ips \cup {NoIp}]

(* A station registered again under its name is reached at the address    *)
(* it was last given: whenever get_station_ip_by_name(n) would return Ok,  *)
(* its string is exactly the address of the last successful set_station   *)
(* for n (the admin uses it to open the SSH session to the station).       *)
LookupIsLastSet ==
    \A n \in Names :
        LET ips == Column(station, n, "ip") IN
        ips # <<>> => ips = <<lastSet[n]>>
=============================================================================
