-------------------------------- MODULE Codecs --------------------------------
(***************************************************************************)
(* What the client writes for others to read, each writer beside its       *)
(* reader: the addresses of mix.go, the invoices of invoice.go with the    *)
(* storage cost of object.go, the encrypted messages of message.go.  Ids,  *)
(* keys and texts are tokens; sizes are in bytes where a reader counts.    *)
(* A writer that panics returns Panicked, a reader that refuses Refused.   *)
(***************************************************************************)
EXTENDS Sums

Panicked == [ok |-> FALSE]
Refused == [ok |-> FALSE]
Written(x) == [ok |-> TRUE, value |-> x]

\* How many numbers two bytes tell apart.
TwoBytes == 65536

\* ------------------------------ mix.go ------------------------------

UuidSize == 16
XinSize == 64

\* NewUUIDMixAddress and NewMainnetMixAddress: only the first compares the
\* threshold with the members.
NewMixAddress(kind, members, threshold) ==
  IF \/ Len(members) > 255 \/ threshold = 0
     \/ kind = "uuid" /\ threshold > Len(members)
  THEN Panicked
  ELSE Written([kind |-> kind, members |-> members, threshold |-> threshold])

\* BytesUnchecked: three bytes and the members, of 16 or of 64 bytes each.
AddressBytes(ma) ==
  [version |-> 2, threshold |-> ma.threshold, total |-> Len(ma.members),
   members |-> ma.members,
   size |-> 3 + Len(ma.members) * (IF ma.kind = "uuid" THEN UuidSize ELSE XinSize)]

\* Mutant: the bound on the members is missed by one.
ReadAddressBytesBelow(b) ==
  IF b.version # 2 \/ b.threshold = 0 \/ b.total >= 64 THEN Refused
  ELSE Written([kind |-> IF b.size - 3 = UuidSize * b.total THEN "uuid" ELSE "xin",
                members |-> b.members, threshold |-> b.threshold])

\* NewMixAddressFromBytesUnchecked: the size of the rest tells the kind.
ReadAddressBytes(b) ==
  LET kind == IF b.size - 3 = UuidSize * b.total THEN "uuid" ELSE "xin"
  IN IF \/ b.version # 2 \/ b.threshold = 0 \/ b.total > 64
        \/ b.size - 3 \notin {UuidSize * b.total, XinSize * b.total}
     THEN Refused
     ELSE Written([kind |-> kind, members |-> b.members, threshold |-> b.threshold])

\* NewMixAddressFromString, of what String wrote: prefix and checksum fit, and
\* the whole has four bytes more.
ReadAddress(b) == IF b.size + 4 < 3 + 16 + 4 THEN Refused ELSE ReadAddressBytes(b)

\* RequestOrGenerateGhostKeys: only the ids of users need a call.
GhostKeyCalls(ma) == IF ma.kind = "xin" /\ ma.members # <<>> THEN 0 ELSE 1

\* ---------------------------- object.go ----------------------------

ExtraSizeGeneralLimit == 256
ExtraSizeStorageStep == 1024
ExtraSizeStorageCapacity == 4194304
ReferencesCountLimit == 2

\* EstimateStorageCost, in steps of the price; it panics above the capacity.
EstimateStorageCost(extra) == extra \div ExtraSizeStorageStep + 1

\* CreateObjectStorageTransaction: the storage is the first recipient and is
\* paid the cost, or the caller's limit when that is more.
StorageRecipients(recipients, extra, limit) ==
  IF extra > ExtraSizeStorageCapacity THEN Refused
  ELSE LET cost == EstimateStorageCost(extra)
       IN Written(<<[to |-> "storage", amount |-> IF limit > cost THEN limit ELSE cost]>>
                  \o recipients)

\* ---------------------------- invoice.go ----------------------------
\* An entry has its trace, its asset, an amount, the length of its extra, the
\* entries it refers to by index, which count from zero, and other hashes.

\* IsStorage.
IsStorage(e) ==
  /\ e.asset = "XIN" /\ e.extra > ExtraSizeGeneralLimit
  /\ e.amount = EstimateStorageCost(e.extra)

\* AddStorageEntry.
AddStorageEntry(entries, trace, extra) ==
  IF extra > ExtraSizeStorageCapacity THEN Panicked
  ELSE Written(Append(entries, [trace |-> trace, asset |-> "XIN", extra |-> extra,
                                amount |-> EstimateStorageCost(extra),
                                indexes |-> <<>>, hashes |-> <<>>]))

\* Mutant: an entry may refer to itself.
AddEntryRefersToItself(entries, e) ==
  IF \/ e.extra >= ExtraSizeGeneralLimit
     \/ Len(e.hashes) + Len(e.indexes) > ReferencesCountLimit
     \/ \E i \in DOMAIN e.indexes : e.indexes[i] > Len(entries)
  THEN Panicked ELSE Written(Append(entries, e))

\* AddEntry: it panics on a long extra, on too many references, and on a
\* reference to an entry that is not there yet.
AddEntry(entries, e) ==
  IF \/ e.extra >= ExtraSizeGeneralLimit
     \/ Len(e.hashes) + Len(e.indexes) > ReferencesCountLimit
     \/ \E i \in DOMAIN e.indexes : e.indexes[i] >= Len(entries)
  THEN Panicked ELSE Written(Append(entries, e))

\* BytesUnchecked: it panics above its own limits, and WriteInt on a length of
\* more than two bytes.  The references by index are written before the others.
\* Its panic on an amount of more than 128 characters is left out.
InvoiceBytes(recipient, entries) ==
  LET rb == AddressBytes(recipient)
      written(e) ==
        [trace |-> e.trace, asset |-> e.asset, amount |-> e.amount, extra |-> e.extra,
         references |-> [i \in DOMAIN e.indexes |-> <<1, e.indexes[i]>>]
                        \o [i \in DOMAIN e.hashes |-> <<0, e.hashes[i]>>]]
  IN IF \/ rb.size > 1024 \/ Len(entries) > 128
        \/ \E i \in DOMAIN entries :
             \/ entries[i].extra >= ExtraSizeStorageCapacity \/ entries[i].extra >= TwoBytes
             \/ Len(written(entries[i]).references) > ReferencesCountLimit
     THEN Panicked
     ELSE Written([version |-> 0, recipient |-> rb,
                   entries |-> [i \in DOMAIN entries |-> written(entries[i])]])

\* NewMixinInvoiceFromString: references are told apart by their first byte,
\* and one by index may only be to an entry already read.
ReadInvoice(b) ==
  LET recipient == ReadAddressBytes(b.recipient)
      places(w, type) == InOrder({k \in DOMAIN w.references : w.references[k][1] = type},
                                 Len(w.references))
      values(w, type) == [k \in DOMAIN places(w, type) |-> w.references[places(w, type)[k]][2]]
      read(w) == [trace |-> w.trace, asset |-> w.asset, amount |-> w.amount,
                  extra |-> w.extra, indexes |-> values(w, 1), hashes |-> values(w, 0)]
  IN IF \/ b.version # 0 \/ ~recipient.ok
        \/ \E i \in DOMAIN b.entries :
             LET w == b.entries[i]
             IN \/ Len(w.references) > ReferencesCountLimit
                \/ \E k \in DOMAIN w.references :
                     \/ w.references[k][1] \notin {0, 1}
                     \/ w.references[k][1] = 1 /\ w.references[k][2] >= i - 1
     THEN Refused
     ELSE Written([recipient |-> recipient.value,
                   entries |-> [i \in DOMAIN b.entries |-> read(b.entries[i])]])

\* ---------------------------- message.go ----------------------------
\* A message is 1 byte, 2 of the number of sessions, 32 of the sender's key, 64
\* for each session (16 of its id, 48 of the wrapped key), 12 of nonce and the
\* text with its tag.  "at" is what a reader finds where it looks.

Header == 35
SessionSize == 64
NonceSize == 12
TagSize == 16

\* EncryptMessageData: the key of the text wrapped for the key of each session.
EncryptMessageData(sessions, text) ==
  LET n == Len(sessions)
      start(i) == Header + (i - 1) * SessionSize
  IN [count |-> n % TwoBytes,
      size |-> Header + n * SessionSize + NonceSize + text + TagSize,
      at |-> [o \in {start(i) : i \in 1..(n + 1)} |->
                IF o = start(n + 1) THEN [what |-> "nonce"]
                ELSE LET s == sessions[(o - Header) \div SessionSize + 1]
                     IN [what |-> "session", id |-> s.id, wrappedFor |-> s.key]]]

\* Mutant: the reader forgets the vector before the wrapped key.
DecryptMessageDataShort(m, id, key) ==
  LET prefixSize == Header + m.count * (SessionSize - 16)
      mine == {o \in DOMAIN m.at : o < prefixSize /\ m.at[o].what = "session" /\ m.at[o].id = id}
  IN IF \/ mine = {} \/ prefixSize \notin DOMAIN m.at
        \/ \A o \in mine : m.at[o].wrappedFor # key
     THEN "" ELSE "text"

\* DecryptMessageData: too short a message, one with no session of this id, and
\* one whose key does not open the text are all read as the empty text, like one
\* that is opened and empty.
DecryptMessageData(m, id, key) ==
  LET prefixSize == Header + m.count * SessionSize
      mine == {o \in DOMAIN m.at : /\ o < prefixSize /\ (o - Header) % SessionSize = 0
                                   /\ m.at[o].what = "session" /\ m.at[o].id = id}
      first == CHOOSE o \in mine : \A p \in mine : o <= p
  IN IF \/ m.size < 1 + 2 + 32 + SessionSize + NonceSize
        \/ mine = {} \/ prefixSize \notin DOMAIN m.at
     THEN ""
     ELSE IF /\ m.at[first].wrappedFor = key /\ m.at[prefixSize].what = "nonce"
             /\ m.size > prefixSize + NonceSize + TagSize
          THEN "text" ELSE ""
=============================================================================
