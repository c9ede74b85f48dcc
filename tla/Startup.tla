------------------------------ MODULE Startup ------------------------------
(***************************************************************************)
(* The persistent part of server::start (src/src/server.rs 36-117, 563):  *)
(* the node's identity key under db_dir.  start creates the directory if *)
(* it is missing, reads the key file (a failed read counts as an empty   *)
(* file), parses it, and if that fails generates a fresh keypair and      *)
(* writes it before anything else happens.  It then binds the first       *)
(* transport (a binding failure panics), spawns its tasks and returns     *)
(* Ok(peer_id).  The process may die at any point and be started again;  *)
(* the directory and the key file survive, nothing else does.            *)
(*                                                                         *)
(* fs::write truncates the file and then writes it, so a crash or an I/O *)
(* error in between leaves a torn file.  It returns once the data is in  *)
(* the page cache: nothing calls sync_all, so until the kernel writes it *)
(* back a power loss can leave the file truncated, where a process crash *)
(* leaves it whole.  Keypair::from_db_bytes is not in *)
(* the source tree; a torn file is taken to fail it (spec 6: "absent or  *)
(* invalid").                                                              *)
(***************************************************************************)
EXTENDS Naturals, FiniteSets

CONSTANTS
    Keys,        \* the keypairs generate_kepair may produce
    NoKey,       \* no key in memory
    ReadFaults,  \* whether fs::read may fail on a file that exists
    MaxStarts    \* bound on the number of calls of start

ASSUME NoKey \notin Keys /\ ReadFaults \in BOOLEAN /\ MaxStarts \in Nat

VARIABLES
    pc,          \* where the current call of start is, or "down"
    dir,         \* whether db_dir/STORAGE_NAME exists
    file,        \* the key file: [st |-> "absent" | "valid" | "torn", key]
    bytes,       \* key_bytes as read, a file record or Empty
    key,         \* the key start holds in memory
    published,   \* the PeerIds start has returned with Ok
    starts,      \* calls of start so far
    faulted,     \* whether a read of an existing key file has failed
    synced       \* whether the key file on disk is what was last written

vars == <<pc, dir, file, bytes, key, published, starts, faulted, synced>>

Absent == [st |-> "absent", key |-> NoKey]
Empty == [st |-> "empty", key |-> NoKey]
Torn == [st |-> "torn", key |-> NoKey]
Files == [st : {"absent", "torn"}, key : {NoKey}] \cup [st : {"valid"}, key : Keys]

Init ==
    /\ pc = "down" /\ dir = FALSE /\ file = Absent
    /\ bytes = Empty /\ key = NoKey /\ published = {} /\ starts = 0
    /\ faulted = FALSE /\ synced = TRUE

\* The application calls start (again).
Start ==
    /\ pc = "down" /\ starts < MaxStarts
    /\ pc' = "dir" /\ starts' = starts + 1
    /\ UNCHANGED <<dir, file, bytes, key, published, faulted, synced>>

\* Lines 53-56: create_dir_all if the directory is missing; its error is
\* returned by `?`.
MakeDir ==
    /\ pc = "dir"
    /\ \/ dir /\ pc' = "read" /\ UNCHANGED dir
       \/ ~dir /\ dir' = TRUE /\ pc' = "read"
       \/ ~dir /\ pc' = "down" /\ UNCHANGED dir
    /\ UNCHANGED <<file, bytes, key, published, starts, faulted, synced>>

\* Lines 57-59: fs::read(&key_path).await.unwrap_or(vec![]).
ReadKey ==
    /\ pc = "read"
    /\ \/ bytes' = (IF file.st = "absent" THEN Empty ELSE file)
          /\ UNCHANGED faulted
       \/ ReadFaults /\ file.st # "absent" /\ bytes' = Empty
          /\ faulted' = TRUE
    /\ pc' = "parse"
    /\ UNCHANGED <<dir, file, key, published, starts, synced>>

\* Lines 61-63: Keypair::from_db_bytes succeeds only on a whole key.
ParseKey ==
    /\ pc = "parse"
    /\ \/ bytes.st = "valid" /\ key' = bytes.key /\ pc' = "bind"
       \/ bytes.st # "valid" /\ key' \in Keys /\ pc' = "write"
    /\ UNCHANGED <<dir, file, bytes, published, starts, faulted, synced>>

\* Lines 64-67: fs::write(key_path, key_bytes).await?; an error returns Err
\* and leaves the file as it was (open failed) or torn (the write failed).
\* Ok means written to the page cache, not to the disk.
WriteKey ==
    /\ pc = "write"
    /\ \/ file' = [st |-> "valid", key |-> key] /\ pc' = "bind" /\ synced' = FALSE
       \/ file' \in {file, Torn} /\ pc' = "down" /\ UNCHANGED synced
    /\ UNCHANGED <<dir, bytes, key, published, starts, faulted>>

\* The kernel writes the dirty key file back, at a time of its choosing.
Flush ==
    /\ ~synced /\ synced' = TRUE
    /\ UNCHANGED <<pc, dir, file, bytes, key, published, starts, faulted>>

\* Lines 73-117 and 563: the peer list is loaded, the transport bound (a
\* failure panics, which is a Crash), the tasks spawned, and Ok(peer_id)
\* returned.
Bind ==
    /\ pc = "bind"
    /\ pc' = "up" /\ published' = published \cup {key}
    /\ UNCHANGED <<dir, file, bytes, key, starts, faulted, synced>>

\* The process dies (a panic, a kill); the page cache survives it.  A
\* write in progress may have truncated the file.
Crash ==
    /\ pc # "down"
    /\ pc' = "down" /\ bytes' = Empty /\ key' = NoKey
    /\ file' \in IF pc = "write" THEN {file, Torn} ELSE {file}
    /\ UNCHANGED <<dir, published, starts, faulted, synced>>

\* The machine loses power, running or not: the page cache is lost with the
\* process, so a key file not yet written back may be left truncated.
PowerLoss ==
    /\ pc' = "down" /\ bytes' = Empty /\ key' = NoKey
    /\ file' \in IF pc = "write" \/ ~synced THEN {file, Torn} ELSE {file}
    /\ synced' = TRUE
    /\ UNCHANGED <<dir, published, starts, faulted>>

Next == Start \/ MakeDir \/ ReadKey \/ ParseKey \/ WriteKey \/ Flush \/ Bind
        \/ Crash \/ PowerLoss

Spec == Init /\ [][Next]_vars

-----------------------------------------------------------------------------

TypeOK ==
    /\ pc \in {"down", "dir", "read", "parse", "write", "bind", "up"}
    /\ dir \in BOOLEAN /\ file \in Files
    /\ bytes \in Files \cup {Empty} /\ key \in Keys \cup {NoKey}
    /\ published \subseteq Keys /\ starts \in 0..MaxStarts
    /\ faulted \in BOOLEAN /\ synced \in BOOLEAN

\* Spec 3 and 6: the identity keypair is long-lived.  Once start has
\* returned a PeerId, the key behind it stays on disk, and every later
\* start, after any crashes, power losses, torn writes and failed starts,
\* returns the
\* same PeerId, unless a read of the existing key file has failed: line 59
\* treats that as an empty file, and the key is then replaced.
IdentityStable ==
    ~faulted =>
        /\ Cardinality(published) <= 1
        /\ \A k \in published : file = [st |-> "valid", key |-> k]

====
