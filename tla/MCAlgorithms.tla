----------------------------- MODULE MCAlgorithms -----------------------------
(* The pure modules over small inputs: one computation per behaviour. *)
EXTENDS RawTransaction, Codecs, KernelTransaction

CONSTANTS MaxLen, MaxAmount

ASSUME SizesAssumption == MaxLen \in Nat /\ MaxAmount \in Nat

Amounts == 1..MaxAmount
Wallets == UNION {[1..n -> Amounts] : n \in 0..MaxLen}

\* An address of n members, and the sizes around the limits of both formats.
Address(kind, n, t) == NewMixAddress(kind, [i \in 1..n |-> i], t)
Addresses ==
  {Address(k, n, t) : k \in {"uuid", "xin"}, n \in {1, 2, 15, 16, 63, 64, 65, 255, 256},
                      t \in {0, 1, 2, 64, 255}}

\* The calls an invoice is built with: extras around the limits, references by
\* index that are good, to itself and beyond, and others.
Entries ==
  [trace : {"t"}, asset : {"XIN"}, amount : {1, 2}, extra : {0, 255, 256},
   indexes : {<<>>, <<0>>, <<1>>, <<1, 0>>}, hashes : {<<>>, <<"h">>, <<"h", "g">>}]
Stored == {[extra |-> n] : n \in {0, 256, 257, 1024, 65535, 65536, 4194304}}
Calls == [storage : {FALSE}, entry : Entries] \cup [storage : {TRUE}, entry : Stored]

Sessions == [id : {"s1", "s2"}, key : {"k1", "k2"}]

\* The sixth has a recipient too many for the rest to be handed out always.
ShareLists ==
  {<<10000>>, <<9999, 1>>, <<3333, 3333, 3334>>, <<3333, 3333, 1667, 1667>>,
   <<2000, 2000, 2000, 2000, 2000>>, <<1666, 1666, 1666, 1666, 1668, 1668>>, <<5000, 0>>}

VARIABLES in, done

Payments == [kind : {"payment"}, outputs : Wallets, amount : Amounts, fee : Amounts,
             split : {0, 1, 2, 3}, count : 0..4 \cup {256}]
Addressed == [kind : {"address"}, address : Addresses]
Others ==
  [kind : {"extra"}, extra : 0..3]
  \cup [kind : {"invoice"}, recipient : {a \in Addresses : a.ok},
        calls : UNION {[1..n -> Calls] : n \in {0, 1}}]
  \cup [kind : {"invoice"}, recipient : {Address("uuid", 2, 1)}, calls : [1..2 -> Calls]]
  \cup [kind : {"message"}, sessions : UNION {[1..n -> Sessions] : n \in 0..3}, text : {0, 5}]
  \cup [kind : {"kernel"}, total : 0..12, shares : ShareLists, inputs : Wallets \ {<<>>}]

Init == done = FALSE /\ in \in Payments \cup Addressed \cup Others

Compute == ~done /\ done' = TRUE /\ UNCHANGED in
Next == Compute
Spec == Init /\ [][Next]_<<in, done>>

Is(kind) == in.kind = kind

Chosen == SelectOutputs(in.outputs, in.amount)
FeeChosen == SelectFeeOutputs(in.outputs, in.fee, in.amount)

\* The inputs of a payment are worth its amount and the change, they are the
\* first of the wallet, and no fewer would do.
SelectionIsLeast == Is("payment") =>
  /\ Chosen.ok <=> in.outputs # <<>> /\ Total(in.outputs) >= in.amount
  /\ Chosen.ok =>
       /\ Totals(in.outputs)[Chosen.taken] = in.amount + Chosen.change
       /\ Chosen.taken > 1 => Totals(in.outputs)[Chosen.taken - 1] < in.amount

\* The parts of the change add up to it, none is empty, there are no more of
\* them than asked for, and all but the last are of the amount asked for: the
\* error "invalid split change amount" is never returned.
SplitKeepsChange == Is("payment") /\ Chosen.ok =>
  LET r == ChangeParts(Chosen.change, in.split, in.count, 1)
      n == Len(r.parts)
  IN r.ok =>
     /\ Total(r.parts) = Chosen.change
     /\ \A i \in 1..n : r.parts[i] > 0
     /\ n > 1 => n <= in.count /\ \A i \in 1..(n - 1) : r.parts[i] = in.split

\* An address of 1 to 64 members that can be made at all is read back as it
\* was written, users as users and mainnet addresses as mainnet addresses, and
\* only those of users need a call for their ghost keys.
AddressReadsBack == Is("address") =>
  LET ma == in.address.value
  IN in.address.ok /\ Len(ma.members) <= 64 =>
       /\ ReadAddress(AddressBytes(ma)) = in.address
       /\ GhostKeyCalls(ma) = 0 <=> ma.kind = "xin"

\* The entries a sequence of calls builds, and whether one of them panicked.
Call(built, c) ==
  IF ~built.ok THEN built
  ELSE IF c.storage THEN AddStorageEntry(built.value, "t", c.entry.extra)
  ELSE AddEntry(built.value, c.entry)
Built ==
  LET after[i \in 0..Len(in.calls)] ==
        IF i = 0 THEN Written(<<>>) ELSE Call(after[i - 1], in.calls[i])
  IN after[Len(in.calls)]

\* An invoice that AddEntry and AddStorageEntry let one build and String write
\* is read back with the same recipient, entries and references, and the
\* reader knows the entries that pay for storage: those of AddStorageEntry
\* whose extra no other entry could carry.  They pay what
\* CreateObjectStorageTransaction would pay for it.
InvoiceReadsBack == Is("invoice") /\ Built.ok =>
  LET entries == Built.value
      written == InvoiceBytes(in.recipient.value, entries)
  IN written.ok /\ Len(in.recipient.value.members) <= 64 =>
       LET read == ReadInvoice(written.value)
           Paid(e) == StorageRecipients(<<>>, e.extra, 0)
       IN /\ read = Written([recipient |-> in.recipient.value, entries |-> entries])
          /\ \A i \in DOMAIN entries :
               LET e == read.value.entries[i]
               IN /\ IsStorage(e) <=> in.calls[i].storage
                                       /\ in.calls[i].entry.extra > ExtraSizeGeneralLimit
                  /\ IsStorage(e) =>
                       Paid(e) = Written(<<[to |-> "storage", amount |-> e.amount]>>)

\* Every session a message was encrypted for reads its text with its own key,
\* unless one before it in the list had the same id and another key; no other key
\* reads it.  An empty text reads like none at all.
EverySessionReads == Is("message") =>
  LET m == EncryptMessageData(in.sessions, in.text)
      Reads(s) == DecryptMessageData(m, s.id, s.key) = "text"
      hidden(i) == \E k \in 1..(i - 1) : /\ in.sessions[k].id = in.sessions[i].id
                                         /\ in.sessions[k].key # in.sessions[i].key
  IN \A s \in Sessions :
       Reads(s) <=> /\ in.text > 0
                    /\ \E i \in DOMAIN in.sessions : in.sessions[i] = s /\ ~hidden(i)

\* The kernel wants the outputs of a transaction to be worth its inputs: a
\* payment always is, and a mint distribution shared out whole among up to five
\* recipients is too.
KernelAmountsAddUp == Is("kernel") =>
  LET mint == MintOutputs(in.total, in.shares)
      paid(amount) == KernelOutputs(in.inputs, amount)
  IN /\ mint.ok =>
          /\ Total(mint.outputs) <= in.total
          /\ Len(in.shares) <= 5 /\ Total(in.shares) = 10000
               => Total(mint.outputs) = in.total
     /\ \A amount \in Amounts :
          paid(amount).ok => Total(paid(amount).outputs) = Total(in.inputs)

\* A withdrawal whose fee asset is another one is refused as "insufficient
\* outputs" only when the outputs of the fee asset are worth less than the fee.
FeeRefusedOnlyIfShort == Is("payment") /\ ~FeeChosen.ok => Total(in.outputs) < in.fee

\* An extra longer than the limit is refused: "large extra %d > %d".
LargeExtraRefused == Is("extra") =>
  \A limit \in 1..2 : ExtraAccepted(in.extra, limit) => in.extra <= limit
=============================================================================
