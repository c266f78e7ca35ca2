--------------------------------- MODULE Files ---------------------------------
(***************************************************************************)
(* Managed files.  A file is stored under a path made of its tenant, its   *)
(* owner, the time in milliseconds and its name, each normalised, so that  *)
(* two files can ask for one path; the storage refuses the second.  The    *)
(* handler may fail after the file was stored.                             *)
(***************************************************************************)
EXTENDS Requests

CONSTANTS
    FileOwners,     \* owners of files, each of one tenant
    TenantOf,       \* the tenant of each owner
    OwnerPath,      \* encodePathSegment of tenant, owner type and owner
    FileNames,
    SafeName,       \* sanitizeFileName
    Buckets,        \* the buckets in use
    Bodies,         \* contents of files
    SizeOf,         \* their sizes, in megabytes rounded up
    MaxTime,        \* bound: milliseconds that go by
    MaxObjects      \* bound: objects that are stored

ASSUME FilesBounds == MaxTime \in Nat /\ MaxObjects \in Nat
ASSUME BucketsAreKnown ==
    Buckets \subseteq {"applicantDocuments", "schoolBranding", "generatedRecords"}
ASSUME FileConversions ==
    /\ SizeOf \in [Bodies -> Nat]
    /\ DOMAIN OwnerPath = FileOwners /\ DOMAIN TenantOf = FileOwners /\ DOMAIN SafeName = FileNames

FileTables == [
    objects |-> {},     \* in the storage: [path, body]
    handed |-> {},      \* files that a client knows to be stored: [path, owner, body]
    urls |-> {},        \* signed upload URLs and their metadata: [path, owner]
    readable |-> {},    \* signed download URLs: [path, body, requester]
    time |-> 0]

FILE_POLICIES == [
    applicantDocuments |-> [maxBytes |-> 10, contentTypes |-> {"application/pdf", "image/jpeg", "image/png"}],
    schoolBranding     |-> [maxBytes |-> 2, contentTypes |-> {"image/jpeg", "image/png", "image/webp"}],
    generatedRecords   |-> [maxBytes |-> 20, contentTypes |-> {"application/pdf"}]]

\* What buildMetadata lets pass.
accepted(bucket, contentType, size) ==
    /\ size >= 1
    /\ contentType \in FILE_POLICIES[bucket].contentTypes
    /\ size <= FILE_POLICIES[bucket].maxBytes

pathOf(bucket, owner, name) == <<bucket, OwnerPath[owner], db.time, SafeName[name]>>

stored(path) == \E o \in db.objects : o.path = path

\* uploadBase64
uploadBase64(w) == service = "files" /\ \E bucket \in Buckets, owner \in FileOwners,
                        name \in FileNames, body \in Bodies :
    /\ \E contentType \in {"application/pdf", "image/png"} : accepted(bucket, contentType, SizeOf[body])
    /\ Take("files", w, <<"upload", "handOver">>,
           [path |-> pathOf(bucket, owner, name), owner |-> owner, body |-> body])
    /\ UNCHANGED db

\* Mutation: upsert: true.
StoreObjectUpsert(w) ==
    /\ At(w, "upload")
    /\ Cardinality(db.objects) < MaxObjects
    /\ db' = [db EXCEPT !.objects = {o \in @ : o.path # arg[w].path}
                                       \cup {[path |-> arg[w].path, body |-> arg[w].body]}]
    /\ Proceed(w)

\* The adapter's upload, with upsert: false.
StoreObject(w) ==
    /\ At(w, "upload")
    /\ ~stored(arg[w].path)
    /\ Cardinality(db.objects) < MaxObjects
    /\ db' = [db EXCEPT !.objects = @ \cup {[path |-> arg[w].path, body |-> arg[w].body]}]
    /\ Proceed(w)

HandOver(w) ==
    /\ At(w, "handOver")
    /\ db' = [db EXCEPT !.handed = @ \cup {arg[w]}]
    /\ Proceed(w)

\* createSignedUploadUrl answers with the URL and its metadata.  The type and
\* the size are what the client says.
createSignedUploadUrl(w) ==
    /\ Serve("files", w)
    /\ \E bucket \in Buckets, owner \in FileOwners, name \in FileNames :
          /\ \E size \in {SizeOf[b] : b \in Bodies} : accepted(bucket, "application/pdf", size)
          /\ ~stored(pathOf(bucket, owner, name))
          /\ db' = [db EXCEPT !.urls = @ \cup {[path |-> pathOf(bucket, owner, name), owner |-> owner]}]

\* createSignedDownloadUrl, of the path of any stored object with the owner
\* that the caller presents: assertTenantAccess compares the requester with
\* that owner's tenant, and nothing ties the owner to the path.
createSignedDownloadUrl(w) ==
    /\ Serve("files", w)
    /\ \E object \in db.objects, owner \in FileOwners, requester \in {TenantOf[o] : o \in FileOwners} :
          /\ TenantOf[owner] = requester
          /\ db' = [db EXCEPT !.readable = @ \cup
                {[path |-> object.path, body |-> object.body, requester |-> requester]}]

FilesElsewhere(tables) ==
    /\ service = "files"
    /\ db' = tables
    /\ UNCHANGED <<service, configured, todo, arg>>

\* A client stores what it likes at the path of its URL, unless there is
\* something already, and learns so or loses the answer.
PutObject == \E url \in db.urls, body \in Bodies :
    LET kept == [db EXCEPT !.objects = @ \cup {[path |-> url.path, body |-> body]}]
    IN  /\ ~stored(url.path) /\ Cardinality(db.objects) < MaxObjects
        /\ \/ FilesElsewhere(kept)
           \/ FilesElsewhere([kept EXCEPT !.handed = @ \cup
                  {[path |-> url.path, owner |-> url.owner, body |-> body]}])

Tick ==
    /\ db.time < MaxTime
    /\ FilesElsewhere([db EXCEPT !.time = @ + 1])

FilesInit == Start("files", {}, FileTables)

FilesNext ==
    \/ PutObject \/ Tick
    \/ \E w \in Workers :
        \/ uploadBase64(w) \/ StoreObject(w) \/ HandOver(w)
        \/ createSignedUploadUrl(w) \/ createSignedDownloadUrl(w)
        \/ service = "files" /\ Fail(w)

\* Whatever names and owners are normalised to one path, and whoever uploads
\* through the service or by a signed URL, a client that knows its file to be
\* stored finds at its path what it uploaded, two uploads that both succeeded
\* have two paths, and a link to a file still shows what it showed when it was
\* made.
FileKept == service = "files" =>
    /\ \A f \in db.handed : [path |-> f.path, body |-> f.body] \in db.objects
    /\ \A f, g \in db.handed : f.path = g.path => f = g
    /\ \A link \in db.readable : [path |-> link.path, body |-> link.body] \in db.objects
    /\ \A o, p \in db.objects : o.path = p.path => o = p
=============================================================================
