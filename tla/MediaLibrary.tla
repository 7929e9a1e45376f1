---------------------------- MODULE MediaLibrary ----------------------------
(* The media of a team: rows in the database, one file per content on disk,   *)
(* and the ids under which an account's provider knows an uploaded item.      *)
(* Requests upload and delete; publication workers translate the media ids of *)
(* a post into ids of the account's provider, uploading what is missing.      *)
EXTENDS Naturals, Sequences, FiniteSets

CONSTANTS Contents,       \* contents a file can have (its sha256)
          ItemIds,        \* ids of rows
          Outlets,        \* accounts media are published to
          Uploaders, Deleters, Syncers,
          NoItem, Gone,   \* an id that is not used yet, one whose row was deleted
          MaxUploads

ASSUME MediaAssumption == NoItem # Gone /\ NoItem \notin Contents /\ Gone \notin Contents

VARIABLES rows,      \* item id -> its content, NoItem or Gone; ids are never used again
          files,     \* contents on disk
          mappings,  \* <<item, account>> -> the provider's id, for what was uploaded
          provided,  \* uploads at the providers: the account, the item and the content
          dropped,   \* contents a deletion and an upload of which overlapped
          up, del, sync, uploads

mediaVars == <<rows, files, mappings, provided, dropped, up, del, sync, uploads>>

Items == {i \in ItemIds : rows[i] \in Contents}
IdleSync == [pc |-> "idle", account |-> NoItem, ids |-> <<>>, out |-> <<>>, saw |-> <<>>]

MediaInit ==
  /\ rows = [i \in ItemIds |-> NoItem]
  /\ files = {} /\ provided = {} /\ dropped = {} /\ uploads = 0
  /\ mappings = [k \in {} |-> NoItem]
  /\ up = [u \in Uploaders |-> [pc |-> "idle", sha |-> NoItem]]
  /\ del = [d \in Deleters |-> [pc |-> "idle", item |-> NoItem, sha |-> NoItem]]
  /\ sync = [w \in Syncers |-> IdleSync]

-----------------------------------------------------------------------------
(* Uploading to the library.                                                 *)

FindMediaItemByTeamSHA256(sha) == {i \in Items : rows[i] = sha}

\* The content is hashed; a file that is there is kept, otherwise it is renamed into place.
SaveMediaFile(u, sha) ==
  /\ up[u].pc = "idle" /\ uploads < MaxUploads
  /\ files' = files \cup {sha}
  /\ up' = [up EXCEPT ![u] = [pc |-> "saved", sha |-> sha]]
  /\ uploads' = uploads + 1
  /\ dropped' = dropped \cup {sha2 \in {sha} : \E d \in Deleters : del[d].pc # "idle" /\ del[d].sha = sha}
  /\ UNCHANGED <<rows, mappings, provided, del, sync>>

\* A row with this content is returned as it is; without one the row is created.
FindOrCreate(u) ==
  /\ up[u].pc = "saved"
  /\ up' = [up EXCEPT ![u].pc = IF FindMediaItemByTeamSHA256(up[u].sha) = {} THEN "create" ELSE "idle"]
  /\ UNCHANGED <<rows, files, mappings, provided, dropped, del, sync, uploads>>

\* (team, sha256) is unique: the second of two rows is refused.
CreateMediaItem(u) ==
  /\ up[u].pc = "create"
  /\ IF FindMediaItemByTeamSHA256(up[u].sha) = {}
     THEN \E i \in {i \in ItemIds : rows[i] = NoItem} : rows' = [rows EXCEPT ![i] = up[u].sha]
     ELSE UNCHANGED rows
  /\ up' = [up EXCEPT ![u].pc = "idle"]
  /\ UNCHANGED <<files, mappings, provided, dropped, del, sync, uploads>>

-----------------------------------------------------------------------------
(* Deleting from it.                                                         *)

\* The handler reads the row for its hash.
StartDelete(d, i) ==
  /\ del[d].pc = "idle" /\ i \in Items
  /\ del' = [del EXCEPT ![d] = [pc |-> "row", item |-> i, sha |-> rows[i]]]
  /\ dropped' = dropped \cup {s \in {rows[i]} : \E u \in Uploaders : up[u].pc # "idle" /\ up[u].sha = s}
  /\ UNCHANGED <<rows, files, mappings, provided, up, sync, uploads>>

\* The row goes with its mappings, in one transaction with the audit entry.
DeleteMediaItem(d) ==
  /\ del[d].pc = "row"
  /\ rows' = [rows EXCEPT ![del[d].item] = Gone]
  /\ mappings' = [k \in {k \in DOMAIN mappings : k[1] # del[d].item} |-> mappings[k]]
  /\ del' = [del EXCEPT ![d].pc = "file"]
  /\ UNCHANGED <<files, provided, dropped, up, sync, uploads>>

\* The transaction fails: the handler answers 500 and the file stays.
DeleteRefused(d) ==
  /\ del[d].pc = "row"
  /\ del' = [del EXCEPT ![d] = [pc |-> "idle", item |-> NoItem, sha |-> NoItem]]
  /\ UNCHANGED <<rows, files, mappings, provided, dropped, up, sync, uploads>>

\* A plausible slip: the file is removed although the row's deletion was refused.
DeleteRefusedFile(d) ==
  /\ del[d].pc \in {"row", "file"}
  /\ files' = files \ {del[d].sha}
  /\ del' = [del EXCEPT ![d] = [pc |-> "idle", item |-> NoItem, sha |-> NoItem]]
  /\ UNCHANGED <<rows, mappings, provided, dropped, up, sync, uploads>>

\* Best effort, after the row.
DeleteMediaFile(d) ==
  /\ del[d].pc = "file"
  /\ files' = files \ {del[d].sha}
  /\ del' = [del EXCEPT ![d] = [pc |-> "idle", item |-> NoItem, sha |-> NoItem]]
  /\ UNCHANGED <<rows, mappings, provided, dropped, up, sync, uploads>>

-----------------------------------------------------------------------------
(* syncMediaToProvider: the ids of a post, one after the other.              *)

StartSync(w, a, ids) ==
  /\ sync[w].pc = "idle"
  /\ sync' = [sync EXCEPT ![w] = [pc |-> "item", account |-> a, ids |-> ids, out |-> <<>>, saw |-> <<>>]]
  /\ UNCHANGED <<rows, files, mappings, provided, dropped, up, del, uploads>>

Current(w) == sync[w].ids[Len(sync[w].out) + 1]
\* The content the row of the current id was read with (saw holds one for each id so far).
RowRead(w) == sync[w].saw[Len(sync[w].saw)]

\* The current id is answered by remote, and the next one follows.
Resolved(s, remote) ==
  [s EXCEPT !.out = Append(@, remote), !.pc = IF Len(s.out) + 1 = Len(s.ids) THEN "done" ELSE "item"]

\* An id without a row is taken for an id of the provider, and so is one whose row cannot
\* be read.
GetMediaItemByID(w) ==
  /\ sync[w].pc = "item"
  /\ LET id == Current(w) IN
       \/ sync' = [sync EXCEPT ![w] = [Resolved(sync[w], id) EXCEPT !.saw = Append(@, NoItem)]]
       \/ id \in Items /\ sync' = [sync EXCEPT ![w].pc = "mapping", ![w].saw = Append(@, rows[id])]
  /\ UNCHANGED <<rows, files, mappings, provided, dropped, up, del, uploads>>

\* A plausible slip: any account's mapping of the item.
AnyMapping(item, account) == {mappings[k] : k \in {k \in DOMAIN mappings : k[1] = item}}
MappingOf(item, account) == {mappings[k] : k \in {k \in DOMAIN mappings : k = <<item, account>>}}

\* No mapping, and one that cannot be read, lead to an upload.
GetMediaProviderMapping(w) ==
  /\ sync[w].pc = "mapping"
  /\ \/ \E remote \in MappingOf(Current(w), sync[w].account) :
           sync' = [sync EXCEPT ![w] = Resolved(sync[w], remote)]
     \/ sync' = [sync EXCEPT ![w].pc = "upload"]
  /\ UNCHANGED <<rows, files, mappings, provided, dropped, up, del, uploads>>

\* The mapping is written without looking at the result; it is refused when the row is gone.
UpsertMediaProviderMapping(item, account, remote) ==
  \/ item \in Items /\ mappings' = [k \in DOMAIN mappings \cup {<<item, account>>} |->
                                     IF k = <<item, account>> THEN remote ELSE mappings[k]]
  \/ UNCHANGED mappings

\* The file of the content that was read is opened and uploaded for the account.
UploadAndMap(w) ==
  /\ sync[w].pc = "upload" /\ RowRead(w) \in files
  /\ LET remote == [n |-> Cardinality(provided), account |-> sync[w].account,
                    item |-> Current(w), sha |-> RowRead(w)]
     IN /\ provided' = provided \cup {remote}
        /\ UpsertMediaProviderMapping(Current(w), sync[w].account, remote)
        /\ sync' = [sync EXCEPT ![w] = Resolved(sync[w], remote)]
  /\ UNCHANGED <<rows, files, dropped, up, del, uploads>>

\* The file is missing or the provider refuses it: the target fails.
UploadFails(w) ==
  /\ sync[w].pc = "upload"
  /\ sync' = [sync EXCEPT ![w] = IdleSync]
  /\ UNCHANGED <<rows, files, mappings, provided, dropped, up, del, uploads>>

\* The status is posted with the ids and the worker is free.
PublishWith(w) ==
  /\ sync[w].pc = "done"
  /\ sync' = [sync EXCEPT ![w] = IdleSync]
  /\ UNCHANGED <<rows, files, mappings, provided, dropped, up, del, uploads>>

\* The ids a post may carry: one or two, in an order; the same may stand there twice.
PostMedia == {<<i>> : i \in ItemIds} \cup {<<i, j>> : i, j \in ItemIds}

MediaNext ==
  \/ \E u \in Uploaders : (\E c \in Contents : SaveMediaFile(u, c)) \/ FindOrCreate(u) \/ CreateMediaItem(u)
  \/ \E d \in Deleters : (\E i \in ItemIds : StartDelete(d, i)) \/ DeleteMediaItem(d)
                           \/ DeleteRefused(d) \/ DeleteMediaFile(d)
  \/ \E w \in Syncers : (Cardinality(provided) < MaxUploads
                           /\ \E a \in Outlets, ids \in PostMedia : StartSync(w, a, ids))
                          \/ GetMediaItemByID(w) \/ GetMediaProviderMapping(w)
                          \/ UploadAndMap(w) \/ UploadFails(w) \/ PublishWith(w)

MediaSpec == MediaInit /\ [][MediaNext]_mediaVars

-----------------------------------------------------------------------------
\* What stands at place n of the translated media: the id itself when no row was read for
\* it, otherwise an upload of that item, with the content its row had, for this account.
RightMedium(s, n) ==
  IF s.saw[n] = NoItem THEN s.out[n] = s.ids[n]
  ELSE \E p \in provided : /\ s.out[n] = p /\ p.account = s.account
                           /\ p.item = s.ids[n] /\ p.sha = s.saw[n]

\* Media are whole for those who use them. An item of the library can be published and
\* previewed: its file is on disk, unless a deletion of the same content overlapped an upload
\* of it (the file is removed by its hash after the row, outside the transaction). And a post
\* goes out with its media in their order: each is an upload of that item, with that content,
\* that was made for that account, whoever uploads and deletes in between and whatever reads
\* fail; an id for which no row was read (there is none, or the read failed) goes out as it is.
MediaIsWhole ==
  /\ \A i \in Items : rows[i] \in files \cup dropped
  /\ \A w \in Syncers : \A n \in 1..Len(sync[w].out) : RightMedium(sync[w], n)
==============================================================================
