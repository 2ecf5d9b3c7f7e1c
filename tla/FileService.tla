----------------------------- MODULE FileService -----------------------------
(***************************************************************************)
(* The companion's file commands (core/commands.c, the on_file_command     *)
(* path of main.c) over the store, with the manifest counter they bump.    *)
(*                                                                         *)
(* The companion is any client of CHAR_FILE_COMMAND: it may send any       *)
(* command at any time, repeat one, abandon an upload, or reconnect in the *)
(* middle of one.  The node itself adds encounter records with fs_write    *)
(* (on_encounter_done), and may lose power between two steps.              *)
(*                                                                         *)
(* acked, clean and kept are history variables: see their declarations.    *)
(***************************************************************************)
EXTENDS FileStore

CONSTANTS
    VersionMod,  \* the manifest counter is a byte: 256
    Piece,       \* what one write_chunk or write can carry
    EncName,     \* names of encounter records (enc_*.cbor)
    MaxCommands, \* bound: commands in a behaviour
    MaxReboots   \* bound: power losses in a behaviour

ASSUME ServiceAssumption ==
    /\ VersionMod \in Nat \ {0, 1}
    /\ Piece \subseteq Content
    /\ EncName \subseteq Name
    /\ MaxCommands \in Nat
    /\ MaxReboots \in Nat

VARIABLES
    store,     \* /files/ and chunk_state
    version,   \* manifest_counter_get()
    reply,     \* answer to the last command: "ok" or "error"; else "none"
    acked,     \* history: blocks acknowledged since the last write_start
    clean,     \* history: no write_chunk was refused since then
    kept,      \* history: what the client may take file n to hold
    commands,  \* bound on commands
    reboots    \* bound on power losses

vars == <<store, version, reply, acked, clean, kept, commands, reboots>>

\* MUTANT: a counter wider than the byte that is advertised
BumpedWide == version + 1

\* manifest_counter_bump
Bumped == (version + 1) % VersionMod

Answer(ok) == IF ok THEN "ok" ELSE "error"

\* The files the open upload can still change: its name, and the file whose
\* directory entry its handle points at.
InFlight(st) ==
    IF st.chunk.active THEN {st.chunk.name, st.chunk.slot} ELSE {}

\* What the client may take n to hold after a single-shot write of d.
KeptAfterWrite(r, n, d) ==
    [kept EXCEPT ![n] = IF r.ok /\ n \notin InFlight(r.st) THEN d ELSE NoFile]

------------------------------------------------------------------------------
Init ==
    /\ store = [files |-> [n \in Name |-> NoFile],
                meta |-> [n \in Name |-> FALSE], chunk |-> ChunkIdle]
    /\ version = 0
    /\ reply = "none"
    /\ acked = <<>>
    /\ clean = TRUE
    /\ kept = [n \in Name |-> NoFile]
    /\ commands = 0
    /\ reboots = 0

\* Every command is one call of commands_handle; one step of the bound.
Command ==
    /\ commands < MaxCommands
    /\ commands' = commands + 1
    /\ UNCHANGED reboots

\* cmd_write: a single-shot write, bumping the counter when it succeeds
Write(n, d) ==
    /\ Command
    /\ \E r \in WriteResults(store, n, d) :
          /\ store' = r.st
          /\ reply' = Answer(r.ok)
          /\ version' = IF r.ok THEN Bumped ELSE version
          /\ kept' = KeptAfterWrite(r, n, d)
    /\ UNCHANGED <<acked, clean>>

\* cmd_write_start
WriteStart(n, total) ==
    /\ Command
    /\ \E r \in StartResults(store, n, total) :
          /\ store' = r.st
          /\ reply' = Answer(r.ok)
          /\ IF r.ok
             THEN /\ acked' = <<>>
                  /\ clean' = TRUE
                  /\ kept' = [kept EXCEPT ![n] = NoFile]
             ELSE UNCHANGED <<acked, clean, kept>>
    /\ UNCHANGED version

\* cmd_write_chunk: the name in the command is ignored
WriteChunk(d) ==
    /\ Command
    /\ \E r \in AppendResults(store, d) :
          /\ store' = r.st
          /\ reply' = Answer(r.ok)
          /\ acked' = IF r.ok THEN acked \o d ELSE acked
          /\ clean' = (clean /\ r.ok)
    /\ UNCHANGED <<version, kept>>

\* cmd_write_end
WriteEnd(n) ==
    /\ Command
    /\ reply' = Answer(Finishable(store, n))
    /\ store' = Finished(store, n)
    /\ IF Finishable(store, n)
       THEN /\ version' = Bumped
            /\ kept' = [kept EXCEPT ![n] =
                  IF clean /\ store.chunk.slot = n THEN acked ELSE NoFile]
       ELSE UNCHANGED <<version, kept>>
    /\ UNCHANGED <<acked, clean>>

\* cmd_delete: no bump, on purpose
Delete(n) ==
    /\ Command
    /\ reply' = Answer(Exists(store, n))
    /\ IF Exists(store, n)
       THEN /\ store' = Deleted(store, n)
            /\ kept' = [kept EXCEPT ![n] = NoFile]
       ELSE UNCHANGED <<store, kept>>
    /\ UNCHANGED <<version, acked, clean>>

\* cmd_write_meta
WriteMeta(n) ==
    /\ Command
    /\ \E r \in MetaResults(store, n) :
          /\ store' = r.st
          /\ reply' = Answer(r.ok)
    /\ UNCHANGED <<version, acked, clean, kept>>

\* on_encounter_done stores the record of a completed handshake: no bump
RecordEncounter(n, d) ==
    /\ Command
    /\ \E r \in WriteResults(store, n, d) :
          /\ store' = r.st
          /\ kept' = KeptAfterWrite(r, n, d)
    /\ reply' = "none"
    /\ UNCHANGED <<version, acked, clean>>

\* Power loss between two commands; boot reloads the counter.
Reboot ==
    /\ reboots < MaxReboots
    /\ reboots' = reboots + 1
    /\ store' \in RebootResults(store)
    /\ reply' = "none"
    /\ acked' = <<>>
    /\ clean' = TRUE
    /\ UNCHANGED <<version, kept, commands>>

Next ==
    \/ \E n \in Name, d \in Piece : Write(n, d)
    \/ \E n \in Name, total \in 0 .. MaxChunked + 1 : WriteStart(n, total)
    \/ \E d \in Piece : WriteChunk(d)
    \/ \E n \in Name : WriteEnd(n)
    \/ \E n \in Name : Delete(n)
    \/ \E n \in Name : WriteMeta(n)
    \/ \E n \in EncName, d \in Piece : RecordEncounter(n, d)
    \/ Reboot

Spec == Init /\ [][Next]_vars

------------------------------------------------------------------------------
\* Every variable has its type: the store of filestore_fatfs.c is well formed
\* after any sequence of commands.
TypeOK ==
    /\ store \in Store
    /\ version \in 0 .. VersionMod - 1
    /\ reply \in {"ok", "error", "none"}
    /\ acked \in Content
    /\ clean \in BOOLEAN
    /\ kept \in [Name -> Content \cup {NoFile}]
    /\ commands \in 0 .. MaxCommands
    /\ reboots \in 0 .. MaxReboots

\* The upload slot counts what it acknowledged: as long as no chunk was
\* refused, the open upload holds exactly the acknowledged blocks, counted
\* by written and within the declared size (fs_chunked_append).
UploadHoldsAcked ==
    store.chunk.active =>
        /\ store.chunk.name \in Name
        /\ store.chunk.written = Len(acked)
        /\ store.chunk.written <= store.chunk.expected
        /\ clean => store.chunk.data = acked

\* A file the node has acknowledged as written (write or write_end answered
\* ok, every chunk accepted) holds exactly what was sent, whatever is sent
\* about other files: stale uploads discarded by a new write_start, uploads
\* that run over or fall short, full volumes and power losses, until a
\* command names that file again (commands.c, filestore_fatfs.c).
AckedFilesKept == \A n \in Name : kept[n] # NoFile => store.files[n] = kept[n]

\* Why AckedFilesKept survives the loss of an upload: nothing the open upload
\* can still change is a file the client may rely on.
InFlightUnkept == \A n \in InFlight(store) \cap Name : kept[n] = NoFile

\* Content that peers could pull never appears in a file without a new
\* manifest version, except in encounter records, in a write answered with
\* an error, or through a dangling upload handle.
NewContentIsAdvertised ==
    [][\A n \in Name \ EncName :
          (/\ store'.files[n] \notin {store.files[n], NoFile, <<>>}
           /\ store.chunk.slot = n => store.chunk.name = n
           /\ reply' # "error")
          => version' # version]_vars

------------------------------------------------------------------------------
\* filestore.h:79-83: fs_chunked_finish closes and syncs the file; a file
\* that does not have the declared size is removed and reported.
FinishedFileIsComplete ==
    [][(/\ store.chunk.active
        /\ ~store'.chunk.active
        /\ reply' = "ok")
       => /\ Exists(store', store.chunk.name)
          /\ Len(store'.files[store.chunk.name]) = store.chunk.expected]_vars
==============================================================================
