------------------------------- MODULE Backup -------------------------------
(***************************************************************************)
(* The backup service (internal/backup): snapshots of the database and of  *)
(* the resources, their retention, and restore.  Requests run concurrently *)
(* and each store or file access is a step; the process may crash between  *)
(* two of them.  The key of a snapshot is its type and its day, so that    *)
(* snapshots of one type taken on one day share a file.                    *)
(***************************************************************************)
EXTENDS Integers, Sequences, FiniteSets, SequencesExt

CONSTANTS Requests,          \* concurrent requests
          Exported,          \* the exported kinds in listing order, one object each
          DefaultRetention,  \* Policy.Retention when nobody set one (7)
          Retentions,        \* values a client may set
          Types,             \* snapshot types a client asks for
          TicksPerDay,
          MaxSnapshots, MaxEdits, MaxTicks, MaxBackupCrashes, MaxRestores

\* The kinds that resourceSnapshot names are different ones.
ASSUME BackupAssumption ==
  /\ Exported \in Seq(Range(Exported)) /\ Exported # <<>>
  /\ \A i, j \in DOMAIN Exported : Exported[i] = Exported[j] => i = j
  /\ Types \subseteq {"database", "resources"}
  /\ DefaultRetention \in Nat /\ Retentions \subseteq Nat
  /\ MaxTicks \in Nat /\ TicksPerDay \in Nat \ {0}
  /\ "client" \notin Requests

VARIABLES objects,   \* [kinds -> row], version 0 when there is no row
          files,     \* [keys -> content]
          snaps,     \* the backup snapshot records
          policy,    \* [retention, version], version 0 when there is no row
          req,       \* [Requests -> what the request is doing]
          clock, edits, restores, begun,   \* time and the bounded counters
          created,   \* ghost: snapshots recorded so far
          uploads,   \* ghost: [keys -> uploads begun]
          doomed,    \* ghost: ids a retention pass has chosen to remove
          lowest,    \* ghost: the smallest retention a pass may have read
          bcrashes

backupVars == <<objects, files, snaps, policy, req, clock, edits, restores, begun, created, uploads,
                doomed, lowest, bcrashes>>

ExportedKinds == Range(Exported)
NoObject == [version |-> 0, spec |-> 0, status |-> 0]

\* The content of a file: no file, one that does not decode (truncated or
\* written by two requests at once), or the entries of a snapshot.
NoFile == [state |-> "none", entries |-> <<>>]
Torn == [state |-> "torn", entries |-> <<>>]
Whole(entries) == [state |-> "whole", entries |-> entries]

SnapshotKey(type, at) == <<type, at \div TicksPerDay>>
FileKeys == {SnapshotKey(t, at) : t \in Types, at \in 0..MaxTicks}

Entry(k) == [kind |-> k, spec |-> objects[k].spec, status |-> objects[k].status]

Resting == [pc |-> "idle", type |-> "", started |-> 0, nth |-> 0, data |-> <<>>, todo |-> <<>>,
            read |-> 0, touched |-> {}]

Become(r, new) == req' = [req EXCEPT ![r] = new]
AtPC(r, pc) == req[r].pc = pc
Finish(r) == Become(r, Resting)

-----------------------------------------------------------------------------
(* Taking a snapshot. *)

\* A record is named after the moment its request began, here the number
\* of the request.
\* recordFailure: a record without a key; its own error is ignored and
\* retention is not enforced.
recordFailure(r) ==
  \/ /\ snaps' = snaps \cup {[id |-> req[r].nth, type |-> req[r].type, key |-> <<>>, at |-> clock,
                              status |-> "failed", sum |-> <<>>]}
     /\ created' = created + 1
  \/ UNCHANGED <<snaps, created>>

Begin(r, type, pc, data, todo) ==
  /\ AtPC(r, "idle") /\ type \in Types
  /\ begun < MaxSnapshots /\ begun' = begun + 1
  /\ Become(r, [Resting EXCEPT !.pc = pc, !.type = type, !.started = clock, !.nth = begun,
                               !.data = data, !.todo = todo])
  /\ UNCHANGED <<objects, files, snaps, policy, clock, edits, restores, created, uploads,
                 doomed, lowest, bcrashes>>

\* VACUUM INTO copies the whole database at one moment.
TriggerDatabase(r) ==
  Begin(r, "database", "upload", [i \in DOMAIN Exported |-> Entry(Exported[i])], <<>>)
\* resourceSnapshot lists one kind after the other.
TriggerResources(r) == Begin(r, "resources", "list", <<>>, Exported)

resourceSnapshot(r) ==
  LET k == Head(req[r].todo)
      found == IF objects[k].version = 0 THEN <<>> ELSE <<Entry(k)>>
  IN /\ AtPC(r, "list")
     /\ Become(r, [req[r] EXCEPT !.data = @ \o found, !.todo = Tail(@),
                                 !.pc = IF Len(req[r].todo) = 1 THEN "upload" ELSE "list"])
     /\ UNCHANGED <<objects, files, snaps, policy, clock, edits, restores, begun, created, uploads,
                    doomed, lowest, bcrashes>>

\* A query or a file operation fails before anything is written.
TriggerFails(r) ==
  /\ req[r].pc \in {"list", "upload"}
  /\ recordFailure(r)
  /\ Finish(r)
  /\ UNCHANGED <<objects, files, policy, clock, edits, restores, begun, uploads, doomed, lowest, bcrashes>>

\* FileStore.Upload: os.Create truncates what was there ...
UploadCreate(r) ==
  LET key == SnapshotKey(req[r].type, req[r].started)
  IN /\ AtPC(r, "upload")
     /\ files' = [files EXCEPT ![key] = Torn]
     /\ uploads' = [uploads EXCEPT ![key] = @ + 1]
     /\ Become(r, [req[r] EXCEPT !.pc = "copy"])
     /\ UNCHANGED <<objects, snaps, policy, clock, edits, restores, begun, created, doomed, lowest, bcrashes>>

\* ... and io.Copy writes from the start; over what another request wrote
\* since, the longer of the two shows behind the shorter.  A file removed in
\* between takes the writes with it.
UploadCopy(r) ==
  LET key == SnapshotKey(req[r].type, req[r].started)
      data == req[r].data
      old == files[key]
  IN /\ AtPC(r, "copy")
     /\ files' = [files EXCEPT ![key] = CASE old = NoFile -> NoFile
                                          [] old = Torn -> Whole(data)
                                          [] Len(old.entries) > Len(data) -> Torn
                                          [] OTHER -> Whole(data)]
     /\ Become(r, [req[r] EXCEPT !.pc = "record"])
     /\ UNCHANGED <<objects, snaps, policy, clock, edits, restores, begun, created, uploads, doomed,
                    lowest, bcrashes>>

\* A mutant: the error of Upload is logged and the snapshot recorded.
UploadErrorIgnored(r) ==
  /\ AtPC(r, "copy")
  /\ Become(r, [req[r] EXCEPT !.pc = "record"])
  /\ UNCHANGED <<objects, files, snaps, policy, clock, edits, restores, begun, created, uploads, doomed,
                 lowest, bcrashes>>
\* The copy fails half-way: the truncated file stays.
UploadFails(r) ==
  /\ AtPC(r, "copy")
  /\ recordFailure(r)
  /\ Finish(r)
  /\ UNCHANGED <<objects, files, policy, clock, edits, restores, begun, uploads, doomed, lowest, bcrashes>>

\* CreateResource of the record; when it fails the file stays without one.
persistSnapshot(r) ==
  /\ AtPC(r, "record")
  /\ \/ /\ snaps' = snaps \cup {[id |-> req[r].nth, type |-> req[r].type,
                                 key |-> SnapshotKey(req[r].type, req[r].started), at |-> clock,
                                 status |-> "success", sum |-> req[r].data]}
        /\ created' = created + 1
        /\ Become(r, [Resting EXCEPT !.pc = "policy", !.type = req[r].type])
     \/ Finish(r) /\ UNCHANGED <<snaps, created>>
  /\ UNCHANGED <<objects, files, policy, clock, edits, restores, begun, uploads, doomed, lowest, bcrashes>>

-----------------------------------------------------------------------------
(* Retention. *)

\* GetPolicy: the default is written on first use.
GetPolicy == IF policy.version = 0 THEN [retention |-> DefaultRetention, version |-> 1] ELSE policy
enforceRetention(r) ==
  /\ AtPC(r, "policy")
  /\ policy' = GetPolicy
  /\ Become(r, [req[r] EXCEPT !.pc = "choose", !.read = GetPolicy.retention])
  /\ UNCHANGED <<objects, files, snaps, clock, edits, restores, begun, created, uploads, doomed, lowest,
                 bcrashes>>

\* ListSnapshots, newest first.  Rows come in the order of their names, type
\* and then time, and the sort keeps that order among records of the same
\* second (it is an insertion sort up to twelve records).
TypeRank(t) == IF t = "database" THEN 0 ELSE 1
Before(s, t) ==
  \/ s.at > t.at
  \/ s.at = t.at /\ TypeRank(s.type) < TypeRank(t.type)
  \/ s.at = t.at /\ s.type = t.type /\ s.id < t.id
PlaceOf(s) == Cardinality({t \in snaps : t = s \/ Before(t, s)})
ListSnapshots == [p \in 1..Cardinality(snaps) |-> CHOOSE s \in snaps : PlaceOf(s) = p]

\* A mutant: the slice starts one too early.
DropOneMore(retention) ==
  IF Len(ListSnapshots) < retention THEN <<>>
  ELSE SubSeq(ListSnapshots, retention, Len(ListSnapshots))
BeyondRetention(retention) ==
  IF Len(ListSnapshots) <= retention THEN <<>>
  ELSE SubSeq(ListSnapshots, retention + 1, Len(ListSnapshots))
ChooseExpired(r) ==
  LET items == BeyondRetention(req[r].read)
  IN /\ AtPC(r, "choose")
     /\ doomed' = doomed \cup {items[i].id : i \in DOMAIN items}
     /\ IF items = <<>> THEN Finish(r)
        ELSE Become(r, [req[r] EXCEPT !.pc = "delete", !.todo = items])
     /\ UNCHANGED <<objects, files, snaps, policy, clock, edits, restores, begun, created, uploads, lowest,
                    bcrashes>>

\* The file goes first, an error is ignored; then the record.
DeleteFile(r) ==
  LET s == Head(req[r].todo)
  IN /\ AtPC(r, "delete")
     /\ \/ s.key # <<>> /\ files' = [files EXCEPT ![s.key] = NoFile]
        \/ UNCHANGED files
     /\ Become(r, [req[r] EXCEPT !.pc = "remove"])
     /\ UNCHANGED <<objects, snaps, policy, clock, edits, restores, begun, created, uploads, doomed, lowest,
                    bcrashes>>
RemoveRecord(r) ==
  LET s == Head(req[r].todo)
      rest == Tail(req[r].todo)
  IN /\ AtPC(r, "remove")
     /\ snaps' = {t \in snaps : t.id # s.id}
     /\ IF rest = <<>> THEN Finish(r)
        ELSE Become(r, [req[r] EXCEPT !.pc = "delete", !.todo = rest])
     /\ UNCHANGED <<objects, files, policy, clock, edits, restores, begun, created, uploads, doomed, lowest,
                    bcrashes>>

\* UpdatePolicy reads the version and writes against it; zero is refused.
UpdatePolicy(r) ==
  /\ AtPC(r, "idle") /\ edits < MaxEdits
  /\ Become(r, [Resting EXCEPT !.pc = "putPolicy", !.read = policy.version])
  /\ edits' = edits + 1
  /\ UNCHANGED <<objects, files, snaps, policy, clock, restores, begun, created, uploads, doomed, lowest,
                 bcrashes>>
PutPolicy(r) ==
  /\ AtPC(r, "putPolicy")
  /\ \/ /\ req[r].read = policy.version
        /\ \E n \in Retentions \ {0} :
             /\ policy' = [retention |-> n, version |-> policy.version + 1]
             /\ lowest' = IF n < lowest THEN n ELSE lowest
     \/ req[r].read # policy.version /\ UNCHANGED <<policy, lowest>>
  /\ Finish(r)
  /\ UNCHANGED <<objects, files, snaps, clock, edits, restores, begun, created, uploads, doomed, bcrashes>>

-----------------------------------------------------------------------------
(* Restore.  The checksum of the record is not compared. *)

Restore(r, s, dryRun) ==
  /\ AtPC(r, "idle") /\ restores < MaxRestores
  /\ restores' = restores + 1
  /\ IF s.status = "success" /\ s.type = "resources" /\ files[s.key].state = "whole"
          /\ ~dryRun /\ files[s.key].entries # <<>>
     THEN Become(r, [Resting EXCEPT !.pc = "get", !.data = files[s.key].entries,
                                    !.todo = files[s.key].entries])
     ELSE UNCHANGED req
  /\ UNCHANGED <<objects, files, snaps, policy, clock, edits, begun, created, uploads, doomed, lowest,
                 bcrashes>>

\* Kind k is written by request r or, when r is not one, by another client.
Touch(k, r) ==
  [q \in Requests |-> IF q # r /\ req[q].data # <<>> /\ req[q].pc \in {"get", "put", "status", "restored"}
                      THEN [req[q] EXCEPT !.touched = @ \cup {k}] ELSE req[q]]
NextEntry(q) == [q EXCEPT !.todo = Tail(@), !.pc = IF Len(q.todo) = 1 THEN "restored" ELSE "get"]
Current(r) == Head(req[r].todo)

\* applyEntry: GetResource, then CreateResource or UpdateResource against
\* the version it read, then UpdateStatus.  The first error ends the restore
\* and keeps what was restored so far.
applyEntry(r) ==
  /\ AtPC(r, "get")
  /\ Become(r, [req[r] EXCEPT !.pc = "put", !.read = objects[Current(r).kind].version])
  /\ UNCHANGED <<objects, files, snaps, policy, clock, edits, restores, begun, created, uploads, doomed,
                 lowest, bcrashes>>
PutEntry(r) ==
  LET e == Current(r)
      row == objects[e.kind]
      fresh == req[r].read = 0
  IN /\ AtPC(r, "put")
     /\ IF row.version # req[r].read
        THEN Finish(r) /\ UNCHANGED objects
        ELSE /\ objects' = [objects EXCEPT ![e.kind] =
                  [version |-> @.version + 1, spec |-> e.spec,
                   status |-> IF fresh THEN e.status ELSE @.status]]
             /\ req' = [Touch(e.kind, r) EXCEPT
                          ![r] = IF fresh THEN NextEntry(@) ELSE [@ EXCEPT !.pc = "status"]]
     /\ UNCHANGED <<files, snaps, policy, clock, edits, restores, begun, created, uploads, doomed, lowest,
                    bcrashes>>
\* A mutant: applyEntry ends with UpdateResource.
StatusNotRestored(r) ==
  /\ AtPC(r, "status")
  /\ Become(r, NextEntry(req[r]))
  /\ UNCHANGED <<objects, files, snaps, policy, clock, edits, restores, begun, created, uploads, doomed,
                 lowest, bcrashes>>
PutStatus(r) ==
  LET e == Current(r)
  IN /\ AtPC(r, "status")
     /\ IF objects[e.kind].version = 0
        THEN Finish(r) /\ UNCHANGED objects
        ELSE /\ objects' = [objects EXCEPT ![e.kind].status = e.status]
             /\ req' = [Touch(e.kind, r) EXCEPT ![r] = NextEntry(@)]
     /\ UNCHANGED <<files, snaps, policy, clock, edits, restores, begun, created, uploads, doomed, lowest,
                    bcrashes>>
Restored(r) ==
  /\ AtPC(r, "restored") /\ Finish(r)
  /\ UNCHANGED <<objects, files, snaps, policy, clock, edits, restores, begun, created, uploads, doomed,
                 lowest, bcrashes>>

-----------------------------------------------------------------------------
(* Around the service. *)

\* Another client creates, changes or removes an object, or a node reports.
EditObject(k) ==
  /\ edits < MaxEdits /\ edits' = edits + 1
  /\ \/ objects' = [objects EXCEPT ![k] = [version |-> @.version + 1, spec |-> edits + 1,
                                           status |-> @.status]]
     \/ objects[k].version > 0 /\ objects' = [objects EXCEPT ![k].status = edits + 1]
     \/ objects[k].version > 0 /\ objects' = [objects EXCEPT ![k] = NoObject]
  /\ req' = Touch(k, "client")
  /\ UNCHANGED <<files, snaps, policy, clock, restores, begun, created, uploads, doomed, lowest, bcrashes>>

Tock ==
  /\ clock < MaxTicks /\ clock' = clock + 1
  /\ UNCHANGED <<objects, files, snaps, policy, req, edits, restores, begun, created, uploads, doomed,
                 lowest, bcrashes>>

\* The rows and the files stay.
BackupCrash ==
  /\ bcrashes < MaxBackupCrashes /\ bcrashes' = bcrashes + 1
  /\ req' = [r \in Requests |-> Resting]
  /\ UNCHANGED <<objects, files, snaps, policy, clock, edits, restores, begun, created, uploads, doomed,
                 lowest>>

BackupInit ==
  /\ objects = [k \in ExportedKinds |-> [version |-> 1, spec |-> 0, status |-> 0]]
  /\ files = [k \in FileKeys |-> NoFile]
  /\ snaps = {} /\ policy = [retention |-> 0, version |-> 0]
  /\ req = [r \in Requests |-> Resting]
  /\ clock = 0 /\ edits = 0 /\ restores = 0 /\ begun = 0 /\ created = 0
  /\ uploads = [k \in FileKeys |-> 0]
  /\ doomed = {} /\ lowest = DefaultRetention /\ bcrashes = 0

BackupNext ==
  \/ \E r \in Requests :
       \/ TriggerDatabase(r) \/ TriggerResources(r) \/ resourceSnapshot(r) \/ TriggerFails(r)
       \/ UploadCreate(r) \/ UploadCopy(r) \/ UploadFails(r) \/ persistSnapshot(r)
       \/ enforceRetention(r) \/ ChooseExpired(r) \/ DeleteFile(r) \/ RemoveRecord(r)
       \/ UpdatePolicy(r) \/ PutPolicy(r)
       \/ \E s \in snaps, dryRun \in BOOLEAN : Restore(r, s, dryRun)
       \/ applyEntry(r) \/ PutEntry(r) \/ PutStatus(r) \/ Restored(r)
  \/ \E k \in ExportedKinds : EditObject(k)
  \/ Tock \/ BackupCrash

BackupSpec == BackupInit /\ [][BackupNext]_backupVars

-----------------------------------------------------------------------------
(* Properties. *)

\* A snapshot recorded as a success can be read back as it was taken, as
\* long as no other snapshot of its type was begun on its day and no
\* retention pass has chosen it: persistSnapshot records only what Upload
\* has written whole, whatever fails, crashes or runs at the same time.
SnapshotIntact ==
  \A s \in snaps :
    s.status = "success" /\ s.id \notin doomed /\ uploads[s.key] = 1 =>
      files[s.key] = Whole(s.sum)

\* Overlapping retention passes, each with the list and the policy it read,
\* never remove more than the policy allows: of the snapshots recorded, at
\* least as many stay as the smallest retention that was ever in force.
RetentionKeepsEnough ==
  Cardinality(snaps) >= IF created < lowest THEN created ELSE lowest

\* A restore that ends without an error leaves every object of the snapshot
\* with the spec and the status of the snapshot, unless somebody else wrote
\* that object while the restore ran.
RestoreComplete ==
  \A r \in Requests :
    AtPC(r, "restored") =>
      \A i \in DOMAIN req[r].data :
        LET e == req[r].data[i]
        IN e.kind \in req[r].touched
             \/ (objects[e.kind].version > 0 /\ Entry(e.kind) = e)

-----------------------------------------------------------------------------
(* The types, and the invariant the proofs rest on. *)

EntryRecord == [kind : ExportedKinds, spec : Nat, status : Nat]
SnapshotRecord ==
  [id : Nat, type : Types, key : FileKeys \cup {<<>>}, at : Nat,
   status : {"success", "failed"}, sum : Seq(EntryRecord)]
RequestState ==
  [pc : {"idle", "list", "upload", "copy", "record", "policy", "choose", "delete", "remove",
         "putPolicy", "get", "put", "status", "restored"},
   type : Types \cup {""}, started : 0..MaxTicks, nth : Nat, data : Seq(EntryRecord),
   todo : Seq(ExportedKinds \cup SnapshotRecord \cup EntryRecord), read : Nat,
   touched : SUBSET ExportedKinds]

BackupTypeOK ==
  /\ objects \in [ExportedKinds -> [version : Nat, spec : Nat, status : Nat]]
  /\ files \in [FileKeys -> [state : {"none", "torn", "whole"}, entries : Seq(EntryRecord)]]
  /\ snaps \subseteq SnapshotRecord /\ IsFiniteSet(snaps)
  /\ policy \in [retention : Nat, version : Nat]
  /\ req \in [Requests -> RequestState]
  /\ clock \in 0..MaxTicks /\ edits \in Nat /\ restores \in Nat /\ begun \in Nat
  /\ created \in Nat /\ uploads \in [FileKeys -> Nat] /\ doomed \subseteq Nat
  /\ lowest \in Nat /\ bcrashes \in Nat

\* What is left to do: kinds to list, records to remove, entries to restore.
Taking(r) == req[r].pc \in {"list", "upload", "copy", "record"}
Removing(r) == req[r].pc \in {"delete", "remove"}
Restoring(r) == req[r].pc \in {"get", "put", "status", "restored"}
TodoOK(r) ==
  /\ AtPC(r, "list") => req[r].todo \in Seq(ExportedKinds) /\ req[r].todo # <<>>
  /\ Removing(r) => req[r].todo \in Seq(SnapshotRecord) /\ req[r].todo # <<>>
  /\ Restoring(r) => req[r].todo \in Seq(EntryRecord)
  /\ Restoring(r) => (AtPC(r, "restored") <=> req[r].todo = <<>>)
TodoInv == \A r \in Requests : TodoOK(r)

\* A request that takes a snapshot has a number of its own, which nothing
\* else bears before it has recorded the snapshot.
RecordOK(s) == s.id < begun /\ (s.status = "success" <=> s.key # <<>>)
NumberOK(r) ==
  /\ Taking(r) => /\ req[r].type \in Types /\ req[r].nth < begun /\ req[r].nth \notin doomed
                  /\ \A s \in snaps : s.id # req[r].nth
  /\ Removing(r) => \A i \in 1..Len(req[r].todo) : req[r].todo[i].id \in doomed
NumberInv ==
  /\ \A s \in snaps : RecordOK(s)
  /\ \A s, t \in snaps : s.id = t.id => s = t
  /\ \A i \in doomed : i < begun
  /\ \A r \in Requests : NumberOK(r)
  /\ \A r, q \in Requests : Taking(r) /\ Taking(q) /\ req[q].nth = req[r].nth => q = r

\* Who has to do with the file of a key: the requests that write it, and
\* the records that name it, listed or about to be removed.
WritesTo(r, key) ==
  req[r].pc \in {"copy", "record"} /\ SnapshotKey(req[r].type, req[r].started) = key
NamedBy(i, key) ==
  \/ \E s \in snaps : s.id = i /\ s.key = key
  \/ \E r \in Requests : /\ Removing(r)
                         /\ \E j \in 1..Len(req[r].todo) :
                              req[r].todo[j].id = i /\ req[r].todo[j].key = key

\* A key that nobody uploaded to has nothing to do with anybody; as long as
\* one upload was begun, with one request or with the record it made.
UnusedOK(key) ==
  /\ \A r \in Requests : ~WritesTo(r, key)
  /\ \A i \in Nat : ~NamedBy(i, key)
UsedOnceOK(key) ==
  /\ \A r, q \in Requests : WritesTo(r, key) /\ WritesTo(q, key) => r = q
  /\ \A r \in Requests : WritesTo(r, key) => \A i \in Nat : ~NamedBy(i, key)
  /\ \A i, j \in Nat : NamedBy(i, key) /\ NamedBy(j, key) => i = j
  /\ \A r \in Requests : WritesTo(r, key) =>
       files[key] = IF AtPC(r, "copy") THEN Torn ELSE Whole(req[r].data)
  /\ \A s \in snaps : s.key = key /\ s.id \notin doomed => files[key] = Whole(s.sum)
FileInv ==
  \A key \in FileKeys : /\ uploads[key] = 0 => UnusedOK(key)
                        /\ uploads[key] = 1 => UsedOnceOK(key)

\* Every pass keeps to a retention that was in force, and a record it has
\* chosen leaves as many behind that come before it and that nobody chose.
Kept == {s \in snaps : s.id \notin doomed}
RetentionInv ==
  /\ lowest <= DefaultRetention
  /\ policy.version > 0 => policy.retention >= lowest
  /\ \A r \in Requests : AtPC(r, "choose") => req[r].read >= lowest
  /\ \A s \in snaps : s.id \in doomed => Cardinality({t \in Kept : Before(t, s)}) >= lowest
  /\ (doomed = {} /\ Cardinality(snaps) = created) \/ Cardinality(Kept) >= lowest

\* A snapshot has each kind once, in the hands of a request and in its file.
Once(entries) ==
  \A i, j \in 1..Len(entries) : entries[i].kind = entries[j].kind => i = j
DataOK(r) ==
  /\ Once(req[r].data)
  /\ AtPC(r, "list") =>
       /\ \A i, j \in 1..Len(req[r].todo) : req[r].todo[i] = req[r].todo[j] => i = j
       /\ \A i \in 1..Len(req[r].todo), j \in 1..Len(req[r].data) :
            req[r].todo[i] # req[r].data[j].kind
DataInv ==
  /\ \A key \in FileKeys : Once(files[key].entries)
  /\ \A r \in Requests : DataOK(r)

\* The entries a restore has still to apply are the last of its data; those
\* before them are in the table, unless somebody else wrote the object.
Applied(r, e) == e.kind \in req[r].touched \/ (objects[e.kind].version > 0 /\ Entry(e.kind) = e)
Half(r, e) ==
  e.kind \in req[r].touched \/ (objects[e.kind].version > 0 /\ objects[e.kind].spec = e.spec)
RestoreOK(r) ==
  LET n == Len(req[r].data)
      m == Len(req[r].todo) IN
  Restoring(r) =>
    /\ req[r].data # <<>> /\ m <= n
    /\ \A i \in 1..m : req[r].todo[i] = req[r].data[(n - m) + i]
    /\ \A i \in 1..(n - m) : Applied(r, req[r].data[i])
    /\ AtPC(r, "status") => Half(r, req[r].todo[1])
RestoreInv == \A r \in Requests : RestoreOK(r)

BackupInv ==
  /\ BackupTypeOK /\ TodoInv /\ NumberInv /\ FileInv /\ RetentionInv /\ DataInv /\ RestoreInv

-----------------------------------------------------------------------------
\* The backups page offers to keep the latest snapshots: as long as no
\* crash interrupts a retention pass, a snapshot that is listed as a success
\* and that no pass has chosen has its file when all requests are done.
KeptSnapshotsReadable ==
  (\A r \in Requests : AtPC(r, "idle")) /\ bcrashes = 0 =>
    \A s \in snaps : s.status = "success" /\ s.id \notin doomed => files[s.key] # NoFile
=============================================================================
