---------------------------- MODULE EntryFormat ----------------------------
(***************************************************************************)
(* The form in which an entry or a group travels: what is read from the    *)
(* XML that keepassxc-cli exports (FromInnerXML), what is written back     *)
(* (ToInnerXML), the envelope around the JSON (EncodeCanonical and its     *)
(* inverse) and the encryption around that, for the desktop client         *)
(* (syncop.go) and for the phone (client/mobile).                          *)
(*                                                                         *)
(* The other modules treat the content of an entry as one value; this one  *)
(* says what happens to its fields.  A value that may be absent is a set   *)
(* with at most one member.  Fields that every conversion writes and reads *)
(* as they are (icon number, colours, override URL, auto-type,             *)
(* QualityCheck, usage count) are one value, `carried`.  Texts and         *)
(* attachments are opaque; tags keep neither order nor repetition; a time  *)
(* is a number of milliseconds, so that the zero time of Go is one of them.*)
(* A JSON text stands for the record it encodes.                           *)
(***************************************************************************)
EXTENDS Integers, Sequences

CONSTANTS
    Uuid,       \* identifiers of entries and groups
    NullUuid,   \* sixteen zero bytes, KeePassXC's way to write "none"
    Root,       \* the empty parent reference
    Text,       \* values of fields, names and notes of groups
    Name,       \* names of fields, attachments and plug-in items
    Data,       \* contents of attachments
    Empty,      \* the attachment without content
    Pooled,     \* a reference to the attachment pool of the database
    Tag,        \* tags
    Blank,      \* the text between two separators that is only spaces
    Carried,    \* the fields no conversion looks at
    Key,        \* keys the blobs are encrypted under
    ZeroTime,   \* Go's zero time
    Error       \* what a conversion that fails returns

Optional(S) == {{}} \union {{x} : x \in S}
The(S) == CHOOSE x \in S : TRUE
Time == Int

\* A mapping from some of the names to S.
Named(S) == UNION {[N -> S] : N \in SUBSET Name}

\* The schema versions this client writes.
SchemaVersion == 1

-----------------------------------------------------------------------------
(***************************************************************************)
(* Canonical form (entry.go).                                              *)
(***************************************************************************)
Times ==
    [created : Time, modified : Time, accessed : Time, moved : Time,
     expires : BOOLEAN, expiresAt : Optional(Time)]

String == [text : Text, protected : BOOLEAN]

CustomDataItem == [text : Text, modified : Optional(Time)]

\* An entry with the history H.
EntryWith(H) ==
    [v : Nat, uuid : Uuid, times : Times, strings : Named(String),
     binaries : Named(Data \union {Empty}), tags : SUBSET (Tag \union {Blank}),
     icon : Optional(Uuid), customData : Named(CustomDataItem),
     previous : Optional(Uuid), carried : Carried, parent : Uuid \union {Root}, history : H]

\* What a history item holds besides: nothing, as its own history is stripped.
Version == EntryWith({<<>>})
CanonicalEntry == EntryWith(Seq(Version))

CanonicalGroup ==
    [v : Nat, uuid : Uuid, name : Text, notes : Text, parent : Uuid \union {Root},
     icon : Carried, customIcon : Optional(Uuid),
     created : Time, modified : Time, moved : Time]

-----------------------------------------------------------------------------
(***************************************************************************)
(* A fragment of the export (parse.go).  `garbled` says that some UUID,    *)
(* number or base64 text of it does not decode.                            *)
(***************************************************************************)
xmlTimes ==
    [created : Optional(Time), modified : Optional(Time), accessed : Optional(Time),
     moved : Optional(Time), expiry : Optional(Time), expires : BOOLEAN]

\* The attribute that marks a protected value: keepassxc-cli's own or the KDBX one.
xmlValue == [text : Text, mark : {"none", "ProtectInMemory", "Protected"}]

xmlEntryWith(H) ==
    [garbled : BOOLEAN, uuid : Uuid, times : xmlTimes, strings : Named(xmlValue),
     binaries : Named(Data \union {Empty, Pooled}), tags : SUBSET (Tag \union {Blank}),
     icon : Optional(Uuid), customData : Named(CustomDataItem),
     previous : Optional(Uuid), carried : Carried, history : H]

\* A history item in an export may, against the format, have a history itself.
xmlVersion == xmlEntryWith(Seq({Blank}))
xmlEntry == xmlEntryWith(Seq(xmlVersion))

\* Every time but the expiry must be there.
ReadableTimes(t) ==
    t.created # {} /\ t.modified # {} /\ t.accessed # {} /\ t.moved # {}

ReadableVersion(x) == ~x.garbled /\ ReadableTimes(x.times)

\* One unreadable version in the history makes the whole entry unreadable.
Readable(x) ==
    ReadableVersion(x) /\ \A i \in DOMAIN x.history : ReadableVersion(x.history[i])

\* The expiry is read only of an entry that expires.
timesToCanonical(t) ==
    [created |-> The(t.created), modified |-> The(t.modified),
     accessed |-> The(t.accessed), moved |-> The(t.moved), expires |-> t.expires,
     expiresAt |-> IF t.expires THEN t.expiry ELSE {}]

\* Attachments in the pool or without content are dropped, and so are blank tags
\* and references that are null.
versionToCanonical(x) ==
    [v |-> SchemaVersion, uuid |-> x.uuid, times |-> timesToCanonical(x.times),
     strings |-> [n \in DOMAIN x.strings |->
                    [text |-> x.strings[n].text, protected |-> x.strings[n].mark # "none"]],
     binaries |-> [n \in {m \in DOMAIN x.binaries : x.binaries[m] \notin {Empty, Pooled}} |->
                    x.binaries[n]],
     tags |-> x.tags \ {Blank}, icon |-> x.icon \ {NullUuid}, customData |-> x.customData,
     previous |-> x.previous \ {NullUuid}, carried |-> x.carried, parent |-> Root,
     history |-> <<>>]

toCanonical(x) ==
    [versionToCanonical(x) EXCEPT
        !.history = [i \in DOMAIN x.history |-> versionToCanonical(x.history[i])]]

FromInnerXML(x) == IF Readable(x) THEN toCanonical(x) ELSE Error

-----------------------------------------------------------------------------
(***************************************************************************)
(* Writing (emit.go).                                                      *)
(***************************************************************************)
\* Times are written to the second.
formatKdbxTime(t) == t - (t % 1000)

\* The expiry is always written: without one the modification time stands in.
writeTimes(t) ==
    [created |-> {formatKdbxTime(t.created)}, modified |-> {formatKdbxTime(t.modified)},
     accessed |-> {formatKdbxTime(t.accessed)}, moved |-> {formatKdbxTime(t.moved)},
     expiry |-> {formatKdbxTime(IF t.expiresAt = {} THEN t.modified ELSE The(t.expiresAt))},
     expires |-> t.expires]

writeString(s) ==
    [text |-> s.text, mark |-> IF s.protected THEN "ProtectInMemory" ELSE "none"]

writeCustomData(cd) ==
    [n \in DOMAIN cd |->
        [text |-> cd[n].text, modified |-> {formatKdbxTime(t) : t \in cd[n].modified}]]

\* The parent group is not part of the fragment: it is the entry's place in the tree.
writeVersion(e) ==
    [garbled |-> FALSE, uuid |-> e.uuid, times |-> writeTimes(e.times),
     strings |-> [n \in DOMAIN e.strings |-> writeString(e.strings[n])],
     binaries |-> e.binaries, tags |-> e.tags, icon |-> e.icon,
     customData |-> writeCustomData(e.customData), previous |-> e.previous,
     carried |-> e.carried, history |-> <<>>]

ToInnerXML(e) ==
    [writeVersion(e) EXCEPT
        !.history = [i \in DOMAIN e.history |-> writeVersion(e.history[i])]]

-----------------------------------------------------------------------------
(***************************************************************************)
(* Envelope (envelope.go) and encryption (crypto/aead.go): the first byte  *)
(* tells the formats apart, and a blob opens under the key it was sealed   *)
(* under and no other.                                                     *)
(***************************************************************************)
EncodeCanonical(e) == [format |-> "canonical", body |-> [e EXCEPT !.v = SchemaVersion]]
EncodeGroup(g) == [format |-> "group", body |-> [g EXCEPT !.v = SchemaVersion]]

\* Whether the plaintext is of the format and of a schema this client knows.
Decodable(format, plaintext) ==
    plaintext.format = format /\ plaintext.body.v \in 1..SchemaVersion

EncryptBlob(key, plaintext) == [key |-> key, plaintext |-> plaintext]
Opens(key, blob) == blob.key = key

-----------------------------------------------------------------------------
(***************************************************************************)
(* The desktop client (syncop.go).                                         *)
(***************************************************************************)
encodeFragmentToBlob(key, parent, x) ==
    IF Readable(x)
    THEN EncryptBlob(key, EncodeCanonical([FromInnerXML(x) EXCEPT !.parent = parent]))
    ELSE Error

\* The first modification time in a fragment is replaced.  It is the entry's own: an
\* export has one in every entry's Times, before plug-in data and history.
rewriteLastModificationTime(x, modAt) ==
    [x EXCEPT !.times.modified = {formatKdbxTime(modAt)}]

\* The fragment to merge, dated with the server's time, and the entry's place.
decryptToFragmentWithParent(key, blob, modAt) ==
    LET plaintext == blob.plaintext
    IN  IF ~Opens(key, blob) THEN Error
        ELSE IF Decodable("canonical", plaintext)
        THEN [fragment |-> ToInnerXML([plaintext.body EXCEPT !.times.modified = modAt]),
              parent |-> plaintext.body.parent]
        ELSE IF plaintext.format = "legacy"
        THEN [fragment |-> rewriteLastModificationTime(plaintext.body, modAt),
              parent |-> Root]
        ELSE Error

\* A group as the desktop client reads it from the file.  `search` is empty where
\* the group inherits.
FileGroup ==
    [uuid : Uuid, parent : Uuid \union {Root}, name : Text, notes : Text, icon : Carried,
     created : Time, modified : Time, moved : Time, search : Optional(BOOLEAN)]

encodeGroupToBlob(key, g) ==
    EncryptBlob(key, EncodeGroup(
        [v |-> 0, uuid |-> g.uuid, name |-> g.name, notes |-> g.notes, parent |-> g.parent,
         icon |-> g.icon, customIcon |-> {}, created |-> g.created, modified |-> g.modified,
         moved |-> g.moved]))

decryptToGroup(key, blob) ==
    LET g == blob.plaintext.body
    IN  IF Opens(key, blob) /\ Decodable("group", blob.plaintext)
        THEN [uuid |-> g.uuid, parent |-> g.parent, name |-> g.name, notes |-> g.notes,
              icon |-> g.icon, created |-> g.created, modified |-> g.modified,
              moved |-> g.moved, search |-> {}]
        ELSE Error

\* The search flag is no part of the blob: a group the file has keeps its own.
withLocalSearch(g, local) ==
    [g EXCEPT !.search = IF g.search = {} THEN local.search ELSE g.search]

isoOrNow(t, now) == {formatKdbxTime(IF t = ZeroTime THEN now ELSE t)}

\* A group's header in the file that is merged.
writeGroupHeader(g, now) ==
    [uuid |-> g.uuid, parent |-> g.parent, name |-> g.name, notes |-> g.notes,
     icon |-> g.icon, created |-> isoOrNow(g.created, now),
     modified |-> isoOrNow(g.modified, now), moved |-> isoOrNow(g.moved, now),
     search |-> g.search]

parseKdbxTimeOrZero(t) == IF t = {} THEN ZeroTime ELSE The(t)

\* A group read from an export.
buildGroup(x) ==
    [uuid |-> x.uuid, parent |-> x.parent, name |-> x.name, notes |-> x.notes,
     icon |-> x.icon, created |-> parseKdbxTimeOrZero(x.created),
     modified |-> parseKdbxTimeOrZero(x.modified), moved |-> parseKdbxTimeOrZero(x.moved),
     search |-> x.search]

-----------------------------------------------------------------------------
(***************************************************************************)
(* The phone (client/mobile).  A session is the key it holds, or {} once   *)
(* it is closed.                                                           *)
(***************************************************************************)
EncryptEntry(session, e) ==
    IF session = {} THEN Error ELSE EncryptBlob(The(session), EncodeCanonical(e))

DecryptEntry(session, blob) ==
    LET plaintext == blob.plaintext
    IN  IF session = {} \/ ~Opens(The(session), blob) THEN Error
        ELSE IF Decodable("canonical", plaintext) THEN plaintext.body
        ELSE IF plaintext.format = "legacy" THEN FromInnerXML(plaintext.body)
        ELSE Error

EncryptGroup(session, g) ==
    IF session = {} THEN Error ELSE EncryptBlob(The(session), EncodeGroup(g))

DecryptGroup(session, blob) ==
    IF session # {} /\ Opens(The(session), blob) /\ Decodable("group", blob.plaintext)
    THEN blob.plaintext.body
    ELSE Error

=============================================================================
