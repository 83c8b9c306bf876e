---------------------------- MODULE IngestProofs ----------------------------
(***************************************************************************)
(* Theorems about Ingest, for every set of environments and updates and    *)
(* every number of accounts that is looked at.                             *)
(***************************************************************************)
EXTENDS Ingest, OperatorProofs

-----------------------------------------------------------------------------
(* The inductive invariant                                                 *)

(* What main and the configuration leave behind: the detector has the      *)
(* programs of the configuration, and an enabled one is 32 bytes long.     *)
ConfigFields ==
  {"pumpfun_enabled", "pumpfun_program", "raydium_enabled", "raydium_program",
   "from_slot_set", "from_slot", "queue_capacity"}

IsConfig(c) ==
  /\ ConfigFields \subseteq DOMAIN c
  /\ c.queue_capacity \in Int /\ c.queue_capacity >= 1024
  /\ c.pumpfun_enabled \in BOOLEAN /\ c.raydium_enabled \in BOOLEAN
  /\ c.pumpfun_enabled => Len(c.pumpfun_program) = PROGRAM_ID_LEN
  /\ c.raydium_enabled => Len(c.raydium_program) = PROGRAM_ID_LEN

Configured ==
  /\ env \in Envs /\ IsConfig(config)
  /\ detector = protocol_detector_init(config.pumpfun_program, config.pumpfun_enabled,
                                       config.raydium_program, config.raydium_enabled)

(* Outside the handler nothing is left of an update; inside, the update is *)
(* what one of the server's has been unpacked into.                        *)
Holding ==
  /\ pc \in {"load", "failed", "subscribe", "recv"} => wire = <<>> /\ derefs = {}
  /\ pc \in {"load", "failed", "subscribe", "recv", "unpacked"} =>
       proto = "NONE" /\ line = 1 /\ pushed = <<>>
  /\ pc \in {"unpacked", "process", "scan", "free"} => wire \in Updates /\ update = Unpack(wire)

(* Behind the guards of handle_transaction; at the lines, none of those    *)
(* before the current one has been an event.                               *)
Keys == update.has[AccountKeys]
Logs == update.has[LogMessages]
LookedAt == SubSeq(Keys, 1, IF Len(Keys) > MaxAccounts THEN MaxAccounts ELSE Len(Keys))

Guarded ==
  /\ pc \in {"process", "scan"} =>
       /\ Passed /\ pushed = <<>>
       /\ proto # "NONE" /\ proto = protocol_detector_match_accounts(detector, LookedAt)
  /\ pc = "process" => line = 1
  /\ pc = "scan" =>
       /\ Present(Meta) /\ Present(LogMessages) /\ line \in 1 .. Len(Logs) + 1
       /\ \A k \in 1 .. line - 1 : ~Parsed(proto, Logs[k])

Inv ==
  /\ TypeOK /\ NoNullDereference /\ Configured /\ Holding /\ Guarded
  /\ EventMatchesReference /\ OverrunByOne

-----------------------------------------------------------------------------
(* The paths of a transaction                                              *)

Root == "subscribe_update_transaction"

(* Numbers on the wire, and the members they are unpacked into.            *)
Leads(root, path, members) ==
  path \in Seq(Nat) /\ path # <<>> /\ Known(root, path) /\ Members(root, path) = members

(* The same for a path at the end of which there is a message.             *)
Stands(root, path, members, name) ==
  path \in Seq(Nat) /\ MessageAt(root, path) = name /\ Members(root, path) = members

HasField(name, number, member, type) ==
  \E i \in DOMAIN Descriptors[name].fields :
    /\ Descriptors[name].fields[i].number = number
    /\ Descriptors[name].fields[i].name = member
    /\ Descriptors[name].fields[i].type = type

Longer(s, x, t) == t = Append(s, x)

LEMMA ParentOfLonger ==
  ASSUME NEW T, NEW s \in Seq(T), NEW x \in T, NEW t, Longer(s, x, t)
  PROVE  Parent(t) = s
<1>1. t \in Seq(T) /\ Len(t) = Len(s) + 1 /\ \A k \in 1 .. Len(s) : t[k] = s[k]
  BY DEF Longer
<1>2. SubSeq(t, 1, Len(s)) = s
  BY <1>1
<1> QED
  BY <1>1, <1>2 DEF Parent

LEMMA Descend ==
  ASSUME NEW root \in Names, NEW path, NEW members, NEW name \in Names, Stands(root, path, members, name),
         NEW number \in Nat, NEW member, NEW type, HasField(name, number, member, type),
         NEW path_, Longer(path, number, path_), NEW members_, Longer(members, member, members_)
  PROVE  /\ Leads(root, path_, members_)
         /\ type \notin Scalars => Stands(root, path_, members_, type)
<1>1. PICK i \in DOMAIN Descriptors[name].fields :
        /\ Descriptors[name].fields[i].number = number
        /\ Descriptors[name].fields[i].name = member
        /\ Descriptors[name].fields[i].type = type
  BY DEF HasField
<1>2. path_ \in Seq(Nat) /\ path_ # <<>>
  BY DEF Longer, Stands
<1>3. /\ Known(root, Append(path, number))
      /\ MessageAt(root, Append(path, number)) = IF type \in Scalars THEN NoMessage ELSE type
      /\ Members(root, Append(path, number)) = Append(Members(root, path), member)
  <2>1. path \in Seq(Nat) /\ MessageAt(root, path) = name
    BY DEF Stands
  <2> QED
    BY <1>1, <2>1, PathStep
<1> QED
  BY <1>2, <1>3 DEF Leads, Stands, Longer

LEMMA TransactionPaths ==
  /\ Leads(Root, <<1>>, Info) /\ Leads(Root, <<2>>, Slot) /\ Leads(Root, <<1, 1>>, Signature)
  /\ Leads(Root, <<1, 3>>, SolTx) /\ Leads(Root, <<1, 3, 2>>, Msg) /\ Leads(Root, <<1, 3, 2, 2>>, AccountKeys)
  /\ Leads(Root, <<1, 4>>, Meta) /\ Leads(Root, <<1, 4, 6>>, LogMessages)
<1> DEFINE info == "subscribe_update_transaction_info"
           tx == "confirmed_block__transaction"
           message == "confirmed_block__message"
           meta == "confirmed_block__transaction_status_meta"
<1>1. Root \in Names /\ info \in Names /\ tx \in Names /\ message \in Names /\ meta \in Names
  BY DEF Names, Descriptors, Root
<1>2. info \notin Scalars /\ tx \notin Scalars /\ message \notin Scalars /\ meta \notin Scalars
  BY DEF Scalars
<1> USE DEF Message, Field, Optional, Repeated, HasField
<1>3. HasField(Root, 1, "transaction", info) /\ HasField(Root, 2, "slot", "uint64")
  BY DEF Descriptors, Root, subscribe_update_transaction
<1>4. /\ HasField(info, 1, "signature", "bytes") /\ HasField(info, 3, "transaction", tx)
      /\ HasField(info, 4, "meta", meta)
  BY DEF Descriptors, subscribe_update_transaction_info
<1>5. HasField(tx, 2, "message", message)
  BY DEF Descriptors, confirmed_block__transaction
<1>6. HasField(message, 2, "account_keys", "bytes")
  BY DEF Descriptors, confirmed_block__message
<1>7. HasField(meta, 6, "log_messages", "string")
  BY DEF Descriptors, confirmed_block__transaction_status_meta
<1> HIDE DEF info, tx, message, meta, HasField
<1> DEFINE none == <<>>
<1>8. /\ Longer(none, 1, <<1>>) /\ Longer(none, 2, <<2>>) /\ Longer(<<1>>, 1, <<1, 1>>)
      /\ Longer(<<1>>, 3, <<1, 3>>) /\ Longer(<<1, 3>>, 2, <<1, 3, 2>>)
      /\ Longer(<<1, 3, 2>>, 2, <<1, 3, 2, 2>>)
      /\ Longer(<<1>>, 4, <<1, 4>>) /\ Longer(<<1, 4>>, 6, <<1, 4, 6>>)
  BY DEF Longer
<1>9. /\ Longer(none, "transaction", Info) /\ Longer(none, "slot", Slot)
      /\ Longer(Info, "signature", Signature) /\ Longer(Info, "transaction", SolTx)
      /\ Longer(SolTx, "message", Msg) /\ Longer(Msg, "account_keys", AccountKeys)
      /\ Longer(Info, "meta", Meta) /\ Longer(Meta, "log_messages", LogMessages)
  BY DEF Longer, Info, Slot, Signature, SolTx, Msg, AccountKeys, Meta, LogMessages
<1>10. Stands(Root, none, none, Root)
  BY <1>1, PathStart DEF Stands
<1> HIDE DEF none
<1>11. Leads(Root, <<1>>, Info) /\ Stands(Root, <<1>>, Info, info) /\ Leads(Root, <<2>>, Slot)
  BY <1>1, <1>2, <1>3, <1>8, <1>9, <1>10, Descend
<1>12. Leads(Root, <<1, 1>>, Signature)
  BY <1>1, <1>4, <1>8, <1>9, <1>11, Descend
<1>13. Leads(Root, <<1, 3>>, SolTx) /\ Stands(Root, <<1, 3>>, SolTx, tx)
  BY <1>1, <1>2, <1>4, <1>8, <1>9, <1>11, Descend
<1>14. Leads(Root, <<1, 3, 2>>, Msg) /\ Stands(Root, <<1, 3, 2>>, Msg, message)
  BY <1>1, <1>2, <1>5, <1>8, <1>9, <1>13, Descend
<1>15. Leads(Root, <<1, 3, 2, 2>>, AccountKeys)
  BY <1>1, <1>6, <1>8, <1>9, <1>14, Descend
<1>16. Leads(Root, <<1, 4>>, Meta) /\ Stands(Root, <<1, 4>>, Meta, meta)
  BY <1>1, <1>2, <1>4, <1>8, <1>9, <1>11, Descend
<1>17. Leads(Root, <<1, 4, 6>>, LogMessages)
  BY <1>1, <1>7, <1>8, <1>9, <1>16, Descend
<1> QED
  BY <1>11, <1>12, <1>13, <1>14, <1>15, <1>16, <1>17

-----------------------------------------------------------------------------
(* Unpacking                                                               *)

(* The fields of an update that its oneof may be set by, the last of them, *)
(* and whether that one is a transaction.                                  *)
MembersOf(u) == {k \in DOMAIN u : u[k].tag \in 2 .. 10}
Last(u) == CHOOSE k \in MembersOf(u) : \A j \in MembersOf(u) : j <= k
Accepted(u) == \A k \in DOMAIN u : u[k].wiretype = "length_prefixed" \/ u[k].tag > 11
IsTransaction(u) == Accepted(u) /\ MembersOf(u) # {} /\ u[Last(u)].tag = UPDATE_ONEOF_TRANSACTION

LEMMA UpdateFields ==
  ASSUME NEW tag \in Nat \ {0}
  PROVE  /\ Lookup(subscribe_update, tag) # NotFound <=> tag \in 1 .. 11
         /\ InOneof(tag) <=> tag \in 2 .. 10
         /\ tag \in 1 .. 11 =>
              \A w : Accepts(FieldOf("subscribe_update", tag), w) <=> w = "length_prefixed"
         /\ tag = UPDATE_ONEOF_TRANSACTION => SubMessage("subscribe_update", tag) = Root
<1> DEFINE m == Descriptors["subscribe_update"]
           i == Lookup(m, tag)
<1>1. m = subscribe_update /\ "subscribe_update" \in Names
  BY DEF Descriptors, Names
<1>2. DOMAIN m.fields = 1 .. 11 /\ \A k \in 1 .. 11 : m.fields[k].number = k
  BY <1>1 DEF subscribe_update, Message, Optional, Repeated, Oneof, Field
<1>3. \A k \in 1 .. 11 : m.fields[k].label = "oneof" <=> k \in 2 .. 10
  BY <1>1 DEF subscribe_update, Message, Optional, Repeated, Oneof, Field
<1>4. \A k \in 1 .. 11 : WireType(m.fields[k].type) = "length_prefixed"
  BY <1>1 DEF subscribe_update, Message, Optional, Repeated, Oneof, Field, WireType
<1>5. m.fields[4].type = Root /\ Root \notin Scalars
  BY <1>1 DEF subscribe_update, Message, Optional, Repeated, Oneof, Field, Root, Scalars
<1>6. LookupIs(m, tag, i)
  BY <1>1, TablesWellFormed, LookupExact
<1>7. FieldOf("subscribe_update", tag) = m.fields[i]
  BY DEF FieldOf
<1> HIDE DEF m, i
<1>8. (i # NotFound <=> tag \in 1 .. 11) /\ (tag \in 1 .. 11 => i = tag)
  BY <1>2, <1>6 DEF LookupIs, NotFound
<1>9. i = Lookup(subscribe_update, tag)
  BY <1>1 DEF i
<1>10. InOneof(tag) <=> tag \in 2 .. 10
  BY <1>3, <1>7, <1>8, <1>9 DEF InOneof
<1>11. ASSUME tag \in 1 .. 11, NEW w
       PROVE  Accepts(FieldOf("subscribe_update", tag), w) <=> w = "length_prefixed"
  BY <1>4, <1>7, <1>8, <1>11 DEF Accepts
<1>12. ASSUME tag = UPDATE_ONEOF_TRANSACTION PROVE SubMessage("subscribe_update", tag) = Root
  <2>1. i = 4 /\ i # NotFound
    BY <1>8, <1>12 DEF UPDATE_ONEOF_TRANSACTION
  <2>2. "subscribe_update" # NoMessage /\ i = Lookup(Descriptors["subscribe_update"], tag)
    BY DEF NoMessage, i, m
  <2> QED
    BY <1>5, <1>7, <2>1, <2>2 DEF SubMessage
<1> QED
  BY <1>8, <1>9, <1>10, <1>11, <1>12

(* The last member is one of them.                                         *)
LEMMA LastMember ==
  ASSUME NEW u \in Updates, MembersOf(u) # {}
  PROVE  Last(u) \in MembersOf(u)
<1> DEFINE n == Len(u)
           B == {n - k : k \in MembersOf(u)}
<1>1. n \in Nat /\ MembersOf(u) \subseteq 1 .. n
  BY IngestAssumption DEF MembersOf
<1>2. B \in SUBSET Nat /\ B # {}
  BY <1>1
<1>3. PICK b \in B : \A c \in B : b <= c
  <2> HIDE DEF B
  <2> QED
    BY <1>2, LeastElement
<1>4. PICK k \in MembersOf(u) : b = n - k
  BY <1>3
<1>5. ASSUME NEW j \in MembersOf(u) PROVE j <= k
  <2>1. n - j \in B
    OBVIOUS
  <2>2. n - k <= n - j
    BY <1>3, <1>4, <2>1
  <2> QED
    BY <1>1, <2>2
<1> QED
  BY <1>4, <1>5 DEF Last

(* geyser__subscribe_update__unpack finds a transaction exactly where the  *)
(* last member of the oneof is one and every known field is length         *)
(* prefixed, and then has the members of that field.                       *)
LEMMA UnpackExact ==
  ASSUME NEW u \in Updates
  PROVE  /\ Unpack(u).update_oneof_case = UPDATE_ONEOF_TRANSACTION <=> IsTransaction(u)
         /\ IsTransaction(u) => /\ Unpack(u).has = Unpacked(Root, u[Last(u)].body)
                                /\ IsBody(u[Last(u)].body)
<1> DEFINE members == {k \in DOMAIN u : InOneof(u[k].tag)}
           last == CHOOSE k \in members : \A j \in members : j <= k
           wrong == \E k \in DOMAIN u :
                      /\ Lookup(subscribe_update, u[k].tag) # NotFound
                      /\ ~Accepts(FieldOf("subscribe_update", u[k].tag), u[k].wiretype)
           whole == [ok |-> TRUE, update_oneof_case |-> u[last].tag,
                     has |-> Unpacked(SubMessage("subscribe_update", u[last].tag), u[last].body)]
<1>1. \A k \in DOMAIN u : u[k].tag \in Nat \ {0} /\ IsBody(u[k].body)
  BY IngestAssumption
<1>2. \A k \in DOMAIN u : InOneof(u[k].tag) <=> u[k].tag \in 2 .. 10
  BY <1>1, UpdateFields
<1>3. members = MembersOf(u)
  BY <1>2 DEF MembersOf
<1>4. last = Last(u)
  BY <1>3 DEF Last
<1>5. wrong <=> ~Accepted(u)
  <2>1. ASSUME NEW k \in DOMAIN u
        PROVE  (/\ Lookup(subscribe_update, u[k].tag) # NotFound
                /\ ~Accepts(FieldOf("subscribe_update", u[k].tag), u[k].wiretype))
                 <=> ~(u[k].wiretype = "length_prefixed" \/ u[k].tag > 11)
    <3> DEFINE t == u[k].tag
    <3>1. t \in Nat \ {0}
      BY <1>1
    <3> HIDE DEF t
    <3>2. (t \in 1 .. 11) <=> ~(t > 11)
      BY <3>1
    <3>3. /\ Lookup(subscribe_update, t) # NotFound <=> t \in 1 .. 11
          /\ t \in 1 .. 11 =>
               \A w : Accepts(FieldOf("subscribe_update", t), w) <=> w = "length_prefixed"
      BY <3>1, UpdateFields
    <3> QED
      BY <3>2, <3>3 DEF t
  <2> QED
    BY <2>1 DEF Accepted
<1>6. Unpack(u) = CASE wrong -> NULL [] members = {} -> [NULL EXCEPT !.ok = TRUE] [] OTHER -> whole
  BY DEF Unpack
<1> HIDE DEF wrong, whole, members, last
<1>7. CASE wrong
  <2>1. Unpack(u).update_oneof_case = 0
    <3>1. Unpack(u) = NULL \/ Unpack(u) = [NULL EXCEPT !.ok = TRUE]
      BY <1>6, <1>7
    <3> QED
      BY <3>1 DEF NULL
  <2> QED
    BY <1>5, <1>7, <2>1 DEF IsTransaction, UPDATE_ONEOF_TRANSACTION
<1>8. CASE ~wrong /\ members = {}
  <2>1. Unpack(u).update_oneof_case = 0
    <3>1. Unpack(u) = [NULL EXCEPT !.ok = TRUE]
      BY <1>6, <1>8
    <3> QED
      BY <3>1 DEF NULL
  <2> QED
    BY <1>3, <1>8, <2>1 DEF IsTransaction, UPDATE_ONEOF_TRANSACTION
<1>9. CASE ~wrong /\ members # {}
  <2>1. Unpack(u) = whole
    BY <1>6, <1>9
  <2>2. Last(u) \in MembersOf(u)
    BY <1>3, <1>9, LastMember
  <2>3. Last(u) \in DOMAIN u
    BY <2>2 DEF MembersOf
  <2>4. Unpack(u).update_oneof_case = u[Last(u)].tag
    BY <1>4, <2>1 DEF whole
  <2>5. Unpack(u).has = Unpacked(SubMessage("subscribe_update", u[Last(u)].tag), u[Last(u)].body)
    BY <1>4, <2>1 DEF whole
  <2>6. IsTransaction(u) => SubMessage("subscribe_update", u[Last(u)].tag) = Root
    BY <1>1, <2>3, UpdateFields DEF IsTransaction
  <2> QED
    BY <1>1, <1>3, <1>5, <1>9, <2>3, <2>4, <2>5, <2>6 DEF IsTransaction
<1> QED
  BY <1>7, <1>8, <1>9

-----------------------------------------------------------------------------
(* The update in hand                                                      *)

InHand == wire \in Updates /\ update = Unpack(wire)

(* The body of the transaction.                                            *)
Body == wire[Last(wire)].body

(* What the structs have at some members is what the body has at a path.   *)
Same(path, members) ==
  /\ Present(members) <=> path \in DOMAIN Body
  /\ path \in DOMAIN Body => update.has[members] = Body[path]

LEMMA UnpackedTransaction ==
  ASSUME InHand
  PROVE  /\ Present(Tx) <=> IsTransaction(wire)
         /\ IsTransaction(wire) =>
              /\ IsBody(Body)
              /\ Same(<<1>>, Info) /\ Same(<<2>>, Slot) /\ Same(<<1, 1>>, Signature)
              /\ Same(<<1, 3>>, SolTx) /\ Same(<<1, 3, 2>>, Msg) /\ Same(<<1, 3, 2, 2>>, AccountKeys)
              /\ Same(<<1, 4>>, Meta) /\ Same(<<1, 4, 6>>, LogMessages)
<1>1. Present(Tx) <=> IsTransaction(wire)
  BY UnpackExact DEF InHand, Present
<1>2. ASSUME IsTransaction(wire)
      PROVE  /\ IsBody(Body)
             /\ Same(<<1>>, Info) /\ Same(<<2>>, Slot) /\ Same(<<1, 1>>, Signature)
             /\ Same(<<1, 3>>, SolTx) /\ Same(<<1, 3, 2>>, Msg) /\ Same(<<1, 3, 2, 2>>, AccountKeys)
             /\ Same(<<1, 4>>, Meta) /\ Same(<<1, 4, 6>>, LogMessages)
  <2>1. update.has = Unpacked(Root, Body) /\ IsBody(Body)
    BY <1>2, UnpackExact DEF InHand, Body
  <2>2. \A p \in DOMAIN Body : p \in Seq(Nat) /\ p # <<>>
    BY <2>1 DEF IsBody
  <2>3. Root \in Names
    BY DEF Names, Descriptors, Root
  <2>4. ASSUME NEW path, NEW members, Leads(Root, path, members), members # Tx
        PROVE  Same(path, members)
    <3>1. /\ members \in DOMAIN Unpacked(Root, Body) <=> path \in DOMAIN Body
          /\ path \in DOMAIN Body => Unpacked(Root, Body)[members] = Body[path]
      BY <2>2, <2>3, <2>4, UnpackedAt DEF Leads
    <3>2. Present(members) <=> members \in DOMAIN update.has
      BY <2>4 DEF Present
    <3> QED
      BY <2>1, <3>1, <3>2 DEF Same
  <2>5. /\ Info # Tx /\ Slot # Tx /\ Signature # Tx /\ SolTx # Tx
        /\ Msg # Tx /\ AccountKeys # Tx /\ Meta # Tx /\ LogMessages # Tx
    BY DEF Tx, Info, Slot, Signature, SolTx, Msg, AccountKeys, Meta, LogMessages
  <2> QED
    BY <2>1, <2>4, <2>5, TransactionPaths
<1> QED
  BY <1>1, <1>2

(* A message that is there is in messages that are; the keys and the lines *)
(* are what they should be.                                                *)
LEMMA Nesting ==
  ASSUME InHand, Present(Tx)
  PROVE  /\ Present(AccountKeys) => Passed /\ Keys \in Seq(Seq(0 .. 255))
         /\ Present(LogMessages) => Present(Meta) /\ Logs \in Seq(Line)
         /\ Present(Signature) => update.has[Signature] \in Signatures
<1>1. /\ IsBody(Body)
      /\ Same(<<1>>, Info) /\ Same(<<1, 3>>, SolTx) /\ Same(<<1, 3, 2>>, Msg)
      /\ Same(<<1, 3, 2, 2>>, AccountKeys) /\ Same(<<1, 4>>, Meta) /\ Same(<<1, 4, 6>>, LogMessages)
      /\ Same(<<1, 1>>, Signature)
  BY UnpackedTransaction
<1>2. \A p \in DOMAIN Body : Len(p) > 1 => Parent(p) \in DOMAIN Body
  BY <1>1 DEF IsBody
<1>3. /\ Parent(<<1, 3, 2, 2>>) = <<1, 3, 2>> /\ Parent(<<1, 3, 2>>) = <<1, 3>>
      /\ Parent(<<1, 3>>) = <<1>> /\ Parent(<<1, 4, 6>>) = <<1, 4>>
      /\ Len(<<1, 3, 2, 2>>) > 1 /\ Len(<<1, 3, 2>>) > 1 /\ Len(<<1, 3>>) > 1 /\ Len(<<1, 4, 6>>) > 1
  <2>1. /\ Longer(<<1, 3, 2>>, 2, <<1, 3, 2, 2>>) /\ Longer(<<1, 3>>, 2, <<1, 3, 2>>)
        /\ Longer(<<1>>, 3, <<1, 3>>) /\ Longer(<<1, 4>>, 6, <<1, 4, 6>>)
    BY DEF Longer
  <2>2. <<1, 3, 2>> \in Seq(Nat) /\ <<1, 3>> \in Seq(Nat) /\ <<1>> \in Seq(Nat) /\ <<1, 4>> \in Seq(Nat)
    OBVIOUS
  <2>3. 2 \in Nat /\ 3 \in Nat /\ 6 \in Nat
    OBVIOUS
  <2>9. \A s \in Seq(Nat) : \A x \in Nat : \A t : Longer(s, x, t) => Parent(t) = s
    BY ParentOfLonger
  <2>4. Parent(<<1, 3, 2, 2>>) = <<1, 3, 2>> /\ Parent(<<1, 3, 2>>) = <<1, 3>>
    BY <2>1, <2>2, <2>3, <2>9, Zenon
  <2>5. Parent(<<1, 3>>) = <<1>> /\ Parent(<<1, 4, 6>>) = <<1, 4>>
    BY <2>1, <2>2, <2>3, <2>9, Zenon
  <2>6. Len(<<1, 3, 2, 2>>) > 1 /\ Len(<<1, 3, 2>>) > 1 /\ Len(<<1, 3>>) > 1 /\ Len(<<1, 4, 6>>) > 1
    OBVIOUS
  <2> QED
    BY <2>4, <2>5, <2>6
<1>4. ASSUME Present(AccountKeys) PROVE Passed /\ Keys \in Seq(Seq(0 .. 255))
  <2>1. <<1, 3, 2, 2>> \in DOMAIN Body /\ Keys = Body[<<1, 3, 2, 2>>]
    BY <1>1, <1>4 DEF Same, Keys
  <2>2. <<1, 3, 2>> \in DOMAIN Body
    BY <1>2, <1>3, <2>1
  <2>3. <<1, 3>> \in DOMAIN Body
    BY <1>2, <1>3, <2>2
  <2>4. <<1>> \in DOMAIN Body
    BY <1>2, <1>3, <2>3
  <2>5. Present(Info) /\ Present(SolTx) /\ Present(Msg)
    BY <1>1, <2>2, <2>3, <2>4 DEF Same
  <2>6. ASSUME NEW k \in DOMAIN Guards PROVE Present(Guards[k])
    <3>1. Guards[k] \in {Tx, Info, SolTx, Msg, AccountKeys}
      BY DEF Guards
    <3> QED
      BY <1>4, <2>5, <3>1
  <2>7. Keys \in Seq(Seq(0 .. 255))
    BY <1>1, <2>1 DEF IsBody
  <2> QED
    BY <2>6, <2>7 DEF Passed
<1>5. ASSUME Present(LogMessages) PROVE Present(Meta) /\ Logs \in Seq(Line)
  <2>1. <<1, 4, 6>> \in DOMAIN Body /\ Logs = Body[<<1, 4, 6>>]
    BY <1>1, <1>5 DEF Same, Logs
  <2>2. <<1, 4>> \in DOMAIN Body
    BY <1>2, <1>3, <2>1
  <2>3. Present(Meta)
    BY <1>1, <2>2 DEF Same
  <2>4. Logs \in Seq(Line)
    BY <1>1, <2>1 DEF IsBody
  <2> QED
    BY <2>3, <2>4
<1>6. Present(Signature) => update.has[Signature] \in Signatures
  BY <1>1 DEF Same, IsBody
<1> QED
  BY <1>4, <1>5, <1>6

-----------------------------------------------------------------------------
(* The lines                                                               *)

(* A well-formed line that holds a trade, and one that gives the bytes of  *)
(* a layout, as the reference has them.                                    *)
Sound(l) ==
  /\ l.prefixed /\ l.skipped = 0 /\ l.len % 4 = 0
  /\ (3 * l.len) \div 4 - l.padding \in 250 .. 768

Full(kind, l) ==
  /\ l.prefixed
  /\ (3 * (l.len - l.skipped)) \div 4
       >= (IF kind = "PUMPFUN" THEN 250 ELSE IF l.has_target THEN 609 ELSE 577)

LEMMA LineParts ==
  ASSUME NEW l \in Line
  PROVE  /\ l.len \in Nat /\ l.padding \in 0 .. 2 /\ l.skipped \in Nat
         /\ l.padding + l.skipped <= l.len
         /\ l.has_target \in BOOLEAN /\ l.prefixed \in BOOLEAN
  BY DEF Line

(* The bytes a line gives.                                                 *)
LEMMA BytesOfLine ==
  ASSUME NEW l \in Line
  PROVE  /\ BytesWritten(l) \in Nat
         /\ BytesWritten(l) = (3 * (l.len - l.skipped)) \div 4
         /\ 4 * BytesWritten(l) <= 3 * (l.len - l.skipped)
<1> DEFINE m == l.len - l.skipped
<1>1. m \in Nat
  BY LineParts
<1>2. BytesWritten(l) = (m * 6) \div 8
  BY DEF BytesWritten, produced_by
<1>3. ASSUME NEW x \in Nat
      PROVE  /\ (x * 6) \div 8 \in Nat /\ (x * 6) \div 8 = (3 * x) \div 4
             /\ 4 * ((x * 6) \div 8) <= 3 * x
  OBVIOUS
<1> HIDE DEF m
<1>4. /\ (m * 6) \div 8 \in Nat /\ (m * 6) \div 8 = (3 * m) \div 4
      /\ 4 * ((m * 6) \div 8) <= 3 * m
  BY <1>1, <1>3
<1> QED
  BY <1>2, <1>4 DEF m

(* A line that is parsed gives the bytes of its layout.                    *)
LEMMA ParsedFull ==
  ASSUME NEW l \in Line, NEW kind \in {"PUMPFUN", "RAYDIUM"}, Parsed(kind, l)
  PROVE  Full(kind, l)
<1> DEFINE b == BytesWritten(l)
<1>1. b \in Nat /\ b = (3 * (l.len - l.skipped)) \div 4
  BY BytesOfLine
<1>2. l.prefixed /\ (IF kind = "PUMPFUN" THEN pumpfun_parse_trade(b)
                     ELSE raydium_parse_swap(b, l.has_target))
  BY DEF Parsed, decode_program_data_line
<1> HIDE DEF b
<1>3. CASE kind = "PUMPFUN"
  <2>1. b >= 250
    BY <1>1, <1>2, <1>3 DEF pumpfun_parse_trade, TradeLayout
  <2> QED
    BY <1>1, <1>2, <1>3, <2>1 DEF Full
<1>4. CASE kind = "RAYDIUM"
  <2>1. l.has_target \in BOOLEAN
    BY LineParts
  <2>2. b >= EndOf(SwapReads(l.has_target))
    BY <1>1, <1>2, <1>4, <2>1, SwapLength
  <2>3. EndOf(SwapReads(l.has_target)) = IF l.has_target THEN 609 ELSE 577
    BY <2>1 DEF EndOf, SwapReads
  <2> QED
    BY <1>1, <1>2, <1>4, <2>2, <2>3 DEF Full
<1> QED
  BY <1>3, <1>4

(* A well-formed line that holds a trade is parsed.                        *)
LEMMA SoundParsed ==
  ASSUME NEW l \in Line, Sound(l)
  PROVE  Parsed("PUMPFUN", l)
<1> DEFINE len == l.len
           pad == l.padding
<1>1. /\ l.prefixed /\ l.skipped = 0 /\ len \in Nat /\ pad \in 0 .. 2 /\ (len % 4) = 0
      /\ (3 * len) \div 4 - pad \in 250 .. 768
  <2>1. l.prefixed /\ l.skipped = 0 /\ (len % 4) = 0 /\ (3 * len) \div 4 - pad \in 250 .. 768
    BY Zenon DEF Sound
  <2>2. len \in Nat /\ pad \in 0 .. 2
    BY LineParts
  <2> QED
    BY <2>1, <2>2
<1>2. BytesWritten(l) = (3 * len) \div 4
  BY <1>1, BytesOfLine
<1> HIDE DEF len, pad
<1>3. PICK q \in Nat : len = 4 * q
  BY <1>1
<1>4. (3 * len) \div 4 = 3 * q /\ ((len + 3) \div 4) * 3 = 3 * q
  BY <1>3
<1>5. len > 0 /\ 3 * q >= 250 /\ decoded_size(len, pad) <= 768
  BY <1>1, <1>3, <1>4 DEF decoded_size
<1>6. decode_program_data_line(l, decode_buf["PUMPFUN"])
  BY <1>1, <1>5 DEF decode_program_data_line, decode_buf, len, pad
<1>7. pumpfun_parse_trade(BytesWritten(l))
  BY <1>2, <1>4, <1>5 DEF pumpfun_parse_trade, TradeLayout
<1> QED
  BY <1>6, <1>7 DEF Parsed

(* What leaves a buffer.                                                   *)
LEMMA OverrunsByOne ==
  ASSUME NEW l \in Line, NEW kind \in {"PUMPFUN", "RAYDIUM"}, Overruns(kind, l)
  PROVE  kind = "RAYDIUM" /\ l.len = 684 /\ l.skipped = 0 /\ l.padding > 0
<1> DEFINE len == l.len
           pad == l.padding
           skip == l.skipped
           b == BytesWritten(l)
           room == decode_buf[kind]
           groups == (len + 3) \div 4
<1>1. len \in Nat /\ pad \in 0 .. 2 /\ skip \in Nat /\ pad + skip <= len
  BY LineParts
<1>2. b \in Nat /\ 4 * b <= 3 * (len - skip)
  BY BytesOfLine
<1>3. groups * 3 - pad <= room /\ b > room
  BY DEF Overruns, decode_program_data_line, decoded_size
<1>4. (kind = "PUMPFUN" /\ room = 768) \/ (kind = "RAYDIUM" /\ room = 512)
  BY DEF decode_buf
<1>5. groups \in Nat /\ 4 * groups >= len /\ 4 * groups <= len + 3
  BY <1>1
<1> HIDE DEF len, pad, skip, b, room, groups
<1>6. CASE kind = "PUMPFUN" /\ room = 768
  <2>1. groups <= 256
    BY <1>1, <1>3, <1>5, <1>6
  <2> QED
    BY <1>1, <1>2, <1>3, <1>5, <1>6, <2>1
<1>7. CASE kind = "RAYDIUM" /\ room = 512
  <2>1. groups <= 171
    BY <1>1, <1>3, <1>5, <1>7
  <2>2. len - skip >= 684 /\ len <= 684
    BY <1>1, <1>2, <1>3, <1>5, <1>7, <2>1
  <2>3. len = 684 /\ skip = 0 /\ groups = 171
    BY <1>1, <1>5, <2>1, <2>2
  <2>4. pad > 0
    BY <1>1, <1>3, <1>7, <2>3
  <2> QED
    BY <1>7, <2>3, <2>4 DEF len, skip, pad
<1> QED
  BY <1>4, <1>6, <1>7

-----------------------------------------------------------------------------
(* The reference                                                           *)

Kind == protocol_detector_match_accounts(detector, LookedAt)

(* The programs of the configuration are the ones the detector knows.      *)
LEMMA Recognised ==
  ASSUME Configured, NEW key
  PROVE  /\ Is(detector.pumpfun, key) <=> detector.pumpfun.enabled /\ key = config.pumpfun_program
         /\ Is(detector.raydium, key) <=> detector.raydium.enabled /\ key = config.raydium_program
<1>1. /\ detector.pumpfun.enabled = config.pumpfun_enabled
      /\ detector.raydium.enabled = config.raydium_enabled
      /\ config.pumpfun_enabled => detector.pumpfun.program_id = config.pumpfun_program
      /\ config.raydium_enabled => detector.raydium.program_id = config.raydium_program
  BY DEF Configured, IsConfig, protocol_detector_init, Pattern
<1>2. /\ config.pumpfun_enabled => Len(config.pumpfun_program) = PROGRAM_ID_LEN
      /\ config.raydium_enabled => Len(config.raydium_program) = PROGRAM_ID_LEN
  BY DEF Configured, IsConfig
<1> QED
  BY <1>1, <1>2 DEF Is

(* A set of numbers has a least one.                                       *)
LEMMA LeastOf ==
  ASSUME NEW S \in SUBSET Nat, S # {}
  PROVE  Least(S) \in S /\ \A k \in S : Least(S) <= k
<1>1. \E n \in S : \A m \in S : n <= m
  BY LeastElement
<1> QED
  BY <1>1 DEF Least

(* The accounts that are looked at.                                        *)
LEMMA LookedAtKeys ==
  ASSUME InHand, Present(Tx), Present(AccountKeys)
  PROVE  /\ LookedAt \in Seq(Seq(0 .. 255))
         /\ DOMAIN LookedAt = {k \in DOMAIN Keys : k <= MaxAccounts}
         /\ \A k \in DOMAIN LookedAt : LookedAt[k] = Keys[k]
<1> DEFINE T == Seq(0 .. 255)
           n == IF Len(Keys) > MaxAccounts THEN MaxAccounts ELSE Len(Keys)
<1>1. Keys \in Seq(T)
  BY Nesting
<1>2. LookedAt = SubSeq(Keys, 1, n)
  BY DEF LookedAt
<1> HIDE DEF T
<1>3. Len(Keys) \in Nat /\ DOMAIN Keys = 1 .. Len(Keys) /\ MaxAccounts \in Nat
  BY <1>1, IngestAssumption
<1>4. n \in 0 .. Len(Keys) /\ 1 .. n = {k \in 1 .. Len(Keys) : k <= MaxAccounts}
  BY <1>3
<1> HIDE DEF n
<1>5. SubSeq(Keys, 1, n) \in Seq(T) /\ DOMAIN SubSeq(Keys, 1, n) = 1 .. n
      /\ \A k \in 1 .. n : SubSeq(Keys, 1, n)[k] = Keys[k]
  BY <1>1, <1>3, <1>4
<1> QED
  BY <1>2, <1>3, <1>4, <1>5 DEF T

(* The program found is the one of the first account, among those looked   *)
(* at, that is a program of the configuration.                             *)
Hits == {k \in DOMAIN Keys : k <= MaxAccounts /\ (\/ Is(detector.pumpfun, Keys[k])
                                                  \/ Is(detector.raydium, Keys[k]))}

LEMMA KindIs ==
  ASSUME InHand, Present(Tx), Present(AccountKeys)
  PROVE  /\ Kind \in {"NONE", "PUMPFUN", "RAYDIUM"}
         /\ Kind = "NONE" <=> Hits = {}
         /\ Hits # {} => Kind = IF Is(detector.pumpfun, Keys[Least(Hits)]) THEN "PUMPFUN" ELSE "RAYDIUM"
<1> DEFINE T == Seq(0 .. 255)
           h == {k \in DOMAIN LookedAt : \/ Is(detector.pumpfun, LookedAt[k])
                                         \/ Is(detector.raydium, LookedAt[k])}
<1>1. /\ LookedAt \in Seq(T) /\ DOMAIN LookedAt = {k \in DOMAIN Keys : k <= MaxAccounts}
      /\ \A k \in DOMAIN LookedAt : LookedAt[k] = Keys[k]
  BY LookedAtKeys
<1> HIDE DEF T
<1>2. h = Hits
  BY <1>1 DEF Hits
<1>3. /\ h = {} => Kind = "NONE"
      /\ \A k \in h : (\A j \in h : k <= j) =>
           Kind = IF Is(detector.pumpfun, LookedAt[k]) THEN "PUMPFUN" ELSE "RAYDIUM"
  <2> DEFINE accounts == LookedAt
             d == detector
  <2>1. accounts \in Seq(T)
    BY <1>1
  <2>2. h = {k \in DOMAIN accounts : Is(d.pumpfun, accounts[k]) \/ Is(d.raydium, accounts[k])}
    OBVIOUS
  <2>3. Kind = protocol_detector_match_accounts(d, accounts)
    BY DEF Kind
  <2> HIDE DEF accounts, h, d
  <2> QED
    BY <2>1, <2>2, <2>3, MatchFirst DEF accounts, d
<1>4. CASE Hits = {}
  BY <1>2, <1>3, <1>4
<1>5. CASE Hits # {}
  <2>1. Hits \in SUBSET Nat
    <3>1. Keys \in Seq(T)
      BY Nesting DEF T
    <3> QED
      BY <3>1 DEF Hits
  <2>2. Least(Hits) \in Hits /\ \A k \in Hits : Least(Hits) <= k
    BY <1>5, <2>1, LeastOf
  <2> HIDE DEF h
  <2>3. Least(Hits) \in DOMAIN LookedAt
    BY <1>2, <2>2 DEF h
  <2> QED
    BY <1>1, <1>2, <1>3, <1>5, <2>2, <2>3
<1> QED
  BY <1>4, <1>5

(* The first of all the accounts that is one of the programs.              *)
AllHits == {k \in DOMAIN Keys : Is(detector.pumpfun, Keys[k]) \/ Is(detector.raydium, Keys[k])}

LEMMA FirstHit ==
  ASSUME InHand, Present(Tx), Present(AccountKeys)
  PROVE  /\ Hits = {} => AllHits = {} \/ Least(AllHits) > MaxAccounts
         /\ Hits # {} => AllHits # {} /\ Least(AllHits) = Least(Hits)
<1>1. Hits = {k \in AllHits : k <= MaxAccounts} /\ MaxAccounts \in Nat
  BY IngestAssumption DEF Hits, AllHits
<1>2. AllHits \in SUBSET Nat
  <2> DEFINE T == Seq(0 .. 255)
  <2>1. Keys \in Seq(T)
    BY Nesting
  <2> HIDE DEF T
  <2> QED
    BY <2>1 DEF AllHits
<1> DEFINE first == Least(AllHits)
           seen == Least(Hits)
<1>3. AllHits # {} => first \in AllHits /\ \A k \in AllHits : first <= k
  BY <1>2, LeastOf
<1>4. Hits # {} => seen \in Hits /\ \A k \in Hits : seen <= k
  BY <1>1, <1>2, LeastOf
<1> HIDE DEF first, seen
<1>5. AllHits # {} => (first \in Hits <=> first <= MaxAccounts) /\ first \in Nat
  BY <1>1, <1>2, <1>3
<1>6. Hits = {} => AllHits = {} \/ first > MaxAccounts
  BY <1>1, <1>5
<1>7. Hits # {} => AllHits # {} /\ first = seen
  <2> SUFFICES ASSUME Hits # {} PROVE AllHits # {} /\ first = seen
    OBVIOUS
  <2>1. seen \in AllHits /\ seen <= MaxAccounts /\ seen \in Nat
    BY <1>1, <1>2, <1>4
  <2>2. AllHits # {} /\ first <= seen /\ first \in Nat
    BY <1>3, <1>5, <2>1
  <2>3. first \in Hits
    BY <1>1, <1>5, <2>1, <2>2
  <2>4. seen <= first
    BY <1>4, <2>3
  <2> QED
    BY <2>1, <2>2, <2>4
<1> QED
  BY <1>6, <1>7 DEF first, seen

(* What may be pushed, by the members of the structs and by the operators  *)
(* that stand for the code.                                                *)
Readable == Present(Tx) /\ Present(AccountKeys) /\ Present(LogMessages)
Promised(k) == Kind = "PUMPFUN" /\ Sound(Logs[k])

Allowed(events, lack) ==
  \/ /\ events = <<>>
     /\ ~Readable \/ Kind = "NONE" \/ \A k \in DOMAIN Logs : ~Promised(k)
  \/ /\ Readable /\ Kind # "NONE"
     /\ \E n \in DOMAIN Logs : \E text :
          /\ IF ~Present(Signature) \/ update.has[Signature] = <<>> THEN text = <<>>
             ELSE Signs(text, update.has[Signature]) \/ (lack /\ text = <<>>)
          /\ Full(Kind, Logs[n]) /\ \A k \in 1 .. n - 1 : ~Promised(k)
          /\ events = <<[type |-> Kind, line |-> n,
                         slot |-> IF Present(Slot) THEN update.has[Slot] ELSE 0,
                         signature |-> text]>>

LEMMA ReferenceIs ==
  ASSUME Configured, InHand, NEW events, NEW lack, Allowed(events, lack)
  PROVE  MayPush(wire, config, events, lack)
<1> DEFINE body == wire[CHOOSE k \in MembersOf(wire) : \A j \in MembersOf(wire) : j <= k].body
           keys == body[<<1, 3, 2, 2>>]
           lines == body[<<1, 4, 6>>]
           pump(k) == config.pumpfun_enabled /\ keys[k] = config.pumpfun_program
           ray(k) == config.raydium_enabled /\ keys[k] = config.raydium_program
           hits == {k \in DOMAIN keys : pump(k) \/ ray(k)}
           kind == IF pump(Least(hits)) THEN "PUMPFUN" ELSE "RAYDIUM"
           sound(k) == kind = "PUMPFUN" /\ Sound(lines[k])
           full(k) == Full(kind, lines[k])
           there == {<<1, 3, 2, 2>>, <<1, 4, 6>>} \subseteq DOMAIN body
           signed(text) == IF <<1, 1>> \notin DOMAIN body \/ body[<<1, 1>>] = <<>> THEN text = <<>>
                           ELSE Signs(text, body[<<1, 1>>]) \/ (lack /\ text = <<>>)
           event(n, text) == [type |-> kind, line |-> n,
                              slot |-> IF <<2>> \in DOMAIN body THEN body[<<2>>] ELSE 0,
                              signature |-> text]
           nothing == ~(IsTransaction(wire) /\ there) \/ hits = {} \/ Least(hits) > MaxAccounts
                        \/ \A k \in DOMAIN lines : ~sound(k)
           one(n) == /\ full(n) /\ \A k \in 1 .. n - 1 : ~sound(k)
                     /\ events = <<event(n, events[1].signature)>>
<1>1. MayPush(wire, config, events, lack) <=>
        \/ events = <<>> /\ nothing
        \/ /\ IsTransaction(wire) /\ there /\ hits # {} /\ events # <<>>
           /\ signed(events[1].signature) /\ \E n \in DOMAIN lines : one(n)
  BY DEF MayPush, MembersOf, IsTransaction, Accepted, Last, Sound, Full, UPDATE_ONEOF_TRANSACTION
<1>2. body = Body
  BY DEF Body, Last
<1>3. Present(Tx) <=> IsTransaction(wire)
  BY UnpackedTransaction
<1> HIDE DEF body
<1>4. ASSUME Present(Tx)
      PROVE  /\ there <=> Present(AccountKeys) /\ Present(LogMessages)
             /\ Present(AccountKeys) => keys = Keys
             /\ Present(LogMessages) => lines = Logs
             /\ <<2>> \in DOMAIN body <=> Present(Slot)
             /\ <<2>> \in DOMAIN body => body[<<2>>] = update.has[Slot]
             /\ <<1, 1>> \in DOMAIN body <=> Present(Signature)
             /\ <<1, 1>> \in DOMAIN body => body[<<1, 1>>] = update.has[Signature]
  <2>1. /\ Same(<<1, 3, 2, 2>>, AccountKeys) /\ Same(<<1, 4, 6>>, LogMessages)
        /\ Same(<<2>>, Slot) /\ Same(<<1, 1>>, Signature)
    BY <1>3, <1>4, UnpackedTransaction
  <2> QED
    BY <1>2, <2>1 DEF Same, Keys, Logs
<1>5. CASE ~Readable
  <2>1. events = <<>>
    BY <1>5 DEF Allowed
  <2>2. ~(IsTransaction(wire) /\ there)
    BY <1>3, <1>4, <1>5 DEF Readable
  <2> HIDE DEF there, hits, sound, full, signed, event
  <2> QED
    BY <1>1, <2>1, <2>2
<1>6. CASE Readable
  <2>1. Present(Tx) /\ Present(AccountKeys) /\ Present(LogMessages)
    BY <1>6 DEF Readable
  <2>2. there /\ keys = Keys /\ lines = Logs /\ IsTransaction(wire)
    BY <1>3, <1>4, <2>1
  <2>3. \A k : (pump(k) <=> Is(detector.pumpfun, Keys[k])) /\ (ray(k) <=> Is(detector.raydium, Keys[k]))
    <3>1. /\ detector.pumpfun.enabled = config.pumpfun_enabled
          /\ detector.raydium.enabled = config.raydium_enabled
      BY DEF Configured, IsConfig, protocol_detector_init, Pattern
    <3> QED
      BY <2>2, <3>1, Recognised
  <2>4. hits = AllHits
    BY <2>2, <2>3 DEF AllHits
  <2>5. /\ Kind \in {"NONE", "PUMPFUN", "RAYDIUM"} /\ (Kind = "NONE" <=> Hits = {})
        /\ Hits # {} => Kind = IF Is(detector.pumpfun, Keys[Least(Hits)]) THEN "PUMPFUN" ELSE "RAYDIUM"
    BY <2>1, KindIs
  <2>6. /\ Hits = {} => AllHits = {} \/ Least(AllHits) > MaxAccounts
        /\ Hits # {} => AllHits # {} /\ Least(AllHits) = Least(Hits)
    BY <2>1, FirstHit
  <2>7. Kind = "NONE" => hits = {} \/ Least(hits) > MaxAccounts
    BY <2>4, <2>5, <2>6
  <2>8. Kind # "NONE" => hits # {} /\ kind = Kind
    BY <2>3, <2>4, <2>5, <2>6
  <2> HIDE DEF hits, kind, there, keys, lines
  <2>9. Kind # "NONE" => \A k : sound(k) <=> Promised(k)
    BY <2>2, <2>8 DEF Promised
  <2>10. Kind # "NONE" => \A k : full(k) <=> Full(Kind, Logs[k])
    BY <2>2, <2>8
  <2>11. Kind # "NONE" =>
           \A n, text : event(n, text) = [type |-> Kind, line |-> n,
                                          slot |-> IF Present(Slot) THEN update.has[Slot] ELSE 0,
                                          signature |-> text]
    BY <1>4, <2>1, <2>8
  <2>12. \A text : signed(text) <=> IF ~Present(Signature) \/ update.has[Signature] = <<>> THEN text = <<>>
                                    ELSE Signs(text, update.has[Signature]) \/ (lack /\ text = <<>>)
    BY <1>4, <2>1
  <2> HIDE DEF sound, full, event, signed
  <2>13. CASE events = <<>> /\ Kind = "NONE"
    BY <1>1, <2>7, <2>13
  <2>14. CASE events = <<>> /\ Kind # "NONE"
    <3>1. \A k \in DOMAIN Logs : ~Promised(k)
      BY <1>6, <2>14 DEF Allowed
    <3> QED
      BY <1>1, <2>2, <2>9, <2>14, <3>1
  <2>15. CASE events # <<>>
    <3>1. PICK n \in DOMAIN Logs : \E text :
            /\ signed(text) /\ Full(Kind, Logs[n]) /\ \A k \in 1 .. n - 1 : ~Promised(k)
            /\ events = <<[type |-> Kind, line |-> n,
                           slot |-> IF Present(Slot) THEN update.has[Slot] ELSE 0,
                           signature |-> text]>>
      BY <1>6, <2>12, <2>15 DEF Allowed
    <3>6. PICK text :
            /\ signed(text) /\ Full(Kind, Logs[n]) /\ \A k \in 1 .. n - 1 : ~Promised(k)
            /\ events = <<[type |-> Kind, line |-> n,
                           slot |-> IF Present(Slot) THEN update.has[Slot] ELSE 0,
                           signature |-> text]>>
      BY <3>1
    <3>2. Kind # "NONE"
      BY <2>15 DEF Allowed
    <3>3. events = <<event(n, text)>> /\ event(n, text).signature = text
      BY <2>11, <3>6, <3>2
    <3>4. events[1].signature = text
      BY <3>3
    <3>5. one(n)
      BY <2>9, <2>10, <3>6, <3>2, <3>3, <3>4
    <3> HIDE DEF one
    <3> QED
      BY <1>1, <2>2, <2>8, <2>15, <3>6, <3>2, <3>4, <3>5
  <2> QED
    BY <2>13, <2>14, <2>15
<1> QED
  BY <1>5, <1>6

(* The text of a signature stands for it, or an empty one if it must.      *)
LEMMA SignatureSigns ==
  ASSUME NEW s \in Signatures, s # <<>>, NEW calloc \in BOOLEAN
  PROVE  Signs(SignatureText[calloc][s], s) \/ (~calloc /\ SignatureText[calloc][s] = <<>>)
<1> DEFINE text == SignatureText[calloc][s]
           d == base58_encode(s, YUREI_MAX_SIGNATURE_LEN, calloc)
           n == Len(Text(s))
<1>1. text = d.out
  BY Zenon DEF SignatureText
<1>2. s \in Digits(256)
  <2>1. s \in Seq(0 .. 255) /\ 256 - 1 = 255
    BY IngestAssumption
  <2> QED
    BY <2>1 DEF Digits
<1>3. base58_decode(Text(s), Len(s), TRUE) = [ret |-> Len(s), out |-> s]
  BY <1>2, DecodeText
<1>4. n \in Nat
  <2> DEFINE b == 58
  <2>1. b \in Nat /\ Text(s) \in Digits(b)
    BY <1>2, TextIs DEF SameNumeral
  <2> HIDE DEF b
  <2> QED
    BY <2>1, DigitsAre
<1>5. d = IF ~calloc \/ n + 1 > 88 THEN [ret |-> -1, out |-> <<>>] ELSE [ret |-> n, out |-> Text(s)]
  BY DEF base58_encode, YUREI_MAX_SIGNATURE_LEN
<1> HIDE DEF d, text, n
<1>6. CASE calloc /\ ~(n + 1 > 88)
  <2>1. text = Text(s)
    BY <1>1, <1>5, <1>6
  <2> QED
    BY <1>3, <2>1, Zenon DEF Signs, text
<1>7. CASE ~calloc \/ n + 1 > 88
  <2>1. text = <<>>
    BY <1>1, <1>5, <1>7
  <2>2. ~calloc \/ n >= 88
    BY <1>4, <1>7
  <2> QED
    BY <2>1, <2>2, Zenon DEF Signs, n, text
<1> QED
  BY <1>6, <1>7

-----------------------------------------------------------------------------
(* The invariant is inductive                                              *)

(* A program id that is accepted: there was memory, and it has 32 bytes.   *)
IdOf(text) == ProgramId(text, TRUE).id
ValidId(text) == ProgramId(text, TRUE).valid

LEMMA AcceptedId ==
  ASSUME NEW text, NEW calloc \in BOOLEAN, ProgramId(text, calloc).valid
  PROVE  /\ ValidId(text) /\ ProgramId(text, calloc).id = IdOf(text)
         /\ Len(IdOf(text)) = PROGRAM_ID_LEN
<1> DEFINE zeros == LeadingZeros(text)
           digits == [i \in DOMAIN text |-> MAP(text[i])]
           tmp == Convert(digits, zeros, 58, 256, (Len(text) * 733) \div 1000 + 1)
           out == Scratch(zeros) \o Stripped(tmp)
           bad == (\E i \in zeros + 1 .. Len(text) : digits[i] < 0) \/ Len(out) > 32
           decoded == base58_decode(text, 32, calloc)
<1>1. decoded.ret = 32
  BY Zenon DEF ProgramId
<1>2. decoded = IF ~calloc \/ bad THEN [ret |-> -1, out |-> <<>>] ELSE [ret |-> Len(out), out |-> out]
  BY DEF base58_decode
<1>3. decoded.out = IdOf(text) /\ ValidId(text) /\ ProgramId(text, calloc).id = IdOf(text)
  <2>1. calloc = TRUE
    <3> SUFFICES ASSUME calloc = FALSE PROVE FALSE
      OBVIOUS
    <3> HIDE DEF bad, out, decoded
    <3>1. decoded.ret = -1
      BY <1>2
    <3> QED
      BY <1>1, <3>1
  <2> QED
    BY <2>1, Zenon DEF ProgramId, IdOf, ValidId
<1> HIDE DEF decoded, bad, out
<1>4. decoded.ret = Len(out) /\ decoded.out = out
  <2>1. ~(~calloc \/ bad)
    BY <1>1, <1>2
  <2> QED
    BY <1>2, <2>1
<1> QED
  BY <1>1, <1>3, <1>4 DEF PROGRAM_ID_LEN

(* What yurei_config_load makes of an environment it accepts.              *)
LoadedFrom(e, c) ==
  /\ ConfigFields \subseteq DOMAIN c
  /\ c.queue_capacity = QueueCapacity(e.queue_capacity)
  /\ c.pumpfun_enabled = (e.pumpfun # <<>>) /\ c.raydium_enabled = (e.raydium # <<>>)
  /\ e.pumpfun # <<>> => ValidId(e.pumpfun) /\ c.pumpfun_program = IdOf(e.pumpfun)
                         /\ Len(IdOf(e.pumpfun)) = PROGRAM_ID_LEN
  /\ e.raydium # <<>> => ValidId(e.raydium) /\ c.raydium_program = IdOf(e.raydium)
                         /\ Len(IdOf(e.raydium)) = PROGRAM_ID_LEN
  /\ c.from_slot_set = (e.from_slot # Unset)
  /\ e.from_slot # Unset => c.from_slot = e.from_slot

LEMMA LoadIs ==
  ASSUME NEW e, NEW calloc \in BOOLEAN, yurei_config_load(e, calloc).ok
  PROVE  LoadedFrom(e, yurei_config_load(e, calloc).config)
<1> DEFINE c == yurei_config_load(e, calloc).config
<1>1. /\ ConfigFields \subseteq DOMAIN c
      /\ c.queue_capacity = QueueCapacity(e.queue_capacity)
      /\ c.pumpfun_enabled = (e.pumpfun # <<>>) /\ c.raydium_enabled = (e.raydium # <<>>)
      /\ c.from_slot_set = (e.from_slot # Unset)
      /\ e.from_slot # Unset => c.from_slot = e.from_slot
  BY DEF yurei_config_load, ConfigFields
<1>2. /\ e.pumpfun # <<>> => c.pumpfun_program = ProgramId(e.pumpfun, calloc).id
      /\ e.raydium # <<>> => c.raydium_program = ProgramId(e.raydium, calloc).id
  BY DEF yurei_config_load
<1>3. /\ e.pumpfun # <<>> => ProgramId(e.pumpfun, calloc).valid
      /\ e.raydium # <<>> => ProgramId(e.raydium, calloc).valid
  BY DEF yurei_config_load
<1> HIDE DEF c
<1>4. e.pumpfun # <<>> => ValidId(e.pumpfun) /\ c.pumpfun_program = IdOf(e.pumpfun)
                           /\ Len(IdOf(e.pumpfun)) = PROGRAM_ID_LEN
  BY <1>2, <1>3, AcceptedId, Zenon
<1>5. e.raydium # <<>> => ValidId(e.raydium) /\ c.raydium_program = IdOf(e.raydium)
                           /\ Len(IdOf(e.raydium)) = PROGRAM_ID_LEN
  BY <1>2, <1>3, AcceptedId, Zenon
<1>6. LoadedFrom(e, c)
  BY <1>1, <1>4, <1>5, Zenon DEF LoadedFrom
<1> QED
  BY <1>6 DEF c

(* A capacity of 1024 at least and program ids of 32 bytes.                *)
LEMMA LoadIsConfig ==
  ASSUME NEW e, e.queue_capacity \in Nat \cup {Unset}, NEW c, LoadedFrom(e, c)
  PROVE  IsConfig(c)
<1>1. c.queue_capacity \in Int /\ c.queue_capacity >= 1024
  BY DEF LoadedFrom, QueueCapacity, Unset
<1> QED
  BY <1>1, ZenonT(30) DEF LoadedFrom, IsConfig

(* The state of a process that has not loaded its configuration.           *)
LEMMA NothingIsConfig ==
  /\ IsConfig(NoConfig)
  /\ NoDetector = protocol_detector_init(NoConfig.pumpfun_program, NoConfig.pumpfun_enabled,
                                         NoConfig.raydium_program, NoConfig.raydium_enabled)
<1>1. /\ ConfigFields \subseteq DOMAIN NoConfig /\ NoConfig.queue_capacity = QueueCapacity(Unset)
      /\ NoConfig.pumpfun_enabled = FALSE /\ NoConfig.raydium_enabled = FALSE
      /\ NoConfig.pumpfun_program = NoProgram /\ NoConfig.raydium_program = NoProgram
  BY DEF NoConfig, yurei_config_load, ConfigFields
<1>2. QueueCapacity(Unset) \in Int /\ QueueCapacity(Unset) >= 1024
  BY DEF QueueCapacity, Unset
<1>3. IsConfig(NoConfig)
  <2>1. NoConfig.queue_capacity \in Int /\ NoConfig.queue_capacity >= 1024
    BY <1>1, <1>2
  <2>2. /\ NoConfig.pumpfun_enabled \in BOOLEAN /\ ~NoConfig.pumpfun_enabled
        /\ NoConfig.raydium_enabled \in BOOLEAN /\ ~NoConfig.raydium_enabled
    BY <1>1, Zenon
  <2> QED
    BY <1>1, <2>1, <2>2, ZenonT(30) DEF IsConfig
<1>4. NoDetector = protocol_detector_init(NoConfig.pumpfun_program, NoConfig.pumpfun_enabled,
                                          NoConfig.raydium_program, NoConfig.raydium_enabled)
  BY <1>1 DEF NoDetector
<1> QED
  BY <1>3, <1>4

LEMMA InitInv == Init => Inv
<1> SUFFICES ASSUME Init PROVE Inv
  OBVIOUS
<1> USE DEF Init
<1>1. Configured
  BY NothingIsConfig DEF Configured
<1>2. TypeOK
  <2>1. env \in Envs /\ config.queue_capacity >= 1024
    BY <1>1 DEF Configured, IsConfig
  <2>2. refused \in BOOLEAN /\ starved \in BOOLEAN
    BY Zenon
  <2>3. /\ pc = "load" /\ encoded = {} /\ wire = <<>> /\ proto = "NONE" /\ line = 1 /\ derefs = {}
    OBVIOUS
  <2> QED
    BY <2>1, <2>2, <2>3 DEF TypeOK
<1>3. NoNullDereference
  BY DEF NoNullDereference
<1>4. Holding /\ Guarded /\ EventMatchesReference /\ OverrunByOne
  BY DEF Holding, Guarded, EventMatchesReference, OverrunByOne
<1> QED
  BY <1>1, <1>2, <1>3, <1>4 DEF Inv

(* The steps outside the handler.                                          *)
LEMMA LoadInv == Inv /\ Load => Inv'
<1> SUFFICES ASSUME Inv, Load PROVE Inv'
  OBVIOUS
<1>1. PICK calloc \in BOOLEAN :
        LET loaded == yurei_config_load(env, calloc)
            c == loaded.config
        IN /\ pc = "load" /\ pc' = IF loaded.ok THEN "subscribe" ELSE "failed"
           /\ config' = IF loaded.ok THEN c ELSE config
           /\ detector' = IF loaded.ok
                          THEN protocol_detector_init(c.pumpfun_program, c.pumpfun_enabled,
                                                      c.raydium_program, c.raydium_enabled)
                          ELSE detector
           /\ UNCHANGED <<env, request, encoded, refused, handling>>
  BY Zenon DEF Load
<1> DEFINE loaded == yurei_config_load(env, calloc)
<1>2. loaded.ok => LoadedFrom(env, loaded.config)
  BY LoadIs
<1>3. env \in Envs /\ env.queue_capacity \in Nat \cup {Unset}
  BY IngestAssumption DEF Inv, Configured
<1>4. loaded.ok => IsConfig(loaded.config)
  <2> HIDE DEF loaded
  <2> QED
    BY <1>2, <1>3, LoadIsConfig
<1>5. /\ pc = "load" /\ pc' = IF loaded.ok THEN "subscribe" ELSE "failed"
      /\ config' = IF loaded.ok THEN loaded.config ELSE config
      /\ detector' = IF loaded.ok
                     THEN protocol_detector_init(loaded.config.pumpfun_program, loaded.config.pumpfun_enabled,
                                                 loaded.config.raydium_program, loaded.config.raydium_enabled)
                     ELSE detector
      /\ UNCHANGED <<env, request, encoded, refused, handling>>
  BY <1>1, Zenon
<1> HIDE DEF loaded
<1>6. Configured'
  <2>1. CASE loaded.ok
    BY <1>4, <1>5, <2>1 DEF Inv, Configured
  <2>2. CASE ~loaded.ok
    BY <1>5, <2>2 DEF Inv, Configured
  <2> QED
    BY <2>1, <2>2
<1>7. wire = <<>> /\ derefs = {} /\ proto = "NONE" /\ line = 1 /\ pushed = <<>>
  BY <1>5 DEF Inv, Holding
<1>8. UNCHANGED <<encoded, refused, wire, derefs, proto, line, pushed, starved>> /\ pc' \in {"subscribe", "failed"}
  BY <1>5 DEF handling
<1>9. TypeOK'
  BY <1>6, <1>7, <1>8 DEF Inv, TypeOK, Configured, IsConfig
<1>10. NoNullDereference' /\ Holding' /\ Guarded' /\ EventMatchesReference' /\ OverrunByOne'
  BY <1>7, <1>8 DEF NoNullDereference, Holding, Guarded, EventMatchesReference, OverrunByOne
<1> QED
  BY <1>6, <1>9, <1>10 DEF Inv

LEMMA CallInv == Inv /\ (Subscribe \/ CallEnds) => Inv'
<1> SUFFICES ASSUME Inv, Subscribe \/ CallEnds PROVE Inv'
  OBVIOUS
<1>1. /\ pc \in {"subscribe", "recv"} /\ pc' \in {"subscribe", "recv"}
      /\ UNCHANGED <<env, detector, handling>>
      /\ encoded' \subseteq {"pumpfun", "raydium"} /\ refused' \in BOOLEAN
      /\ config' = config \/ config' = [config EXCEPT !.from_slot_set = FALSE, !.from_slot = 0]
  <2>1. CASE Subscribe
    <3>1. pc = "subscribe" /\ pc' = "recv" /\ UNCHANGED <<env, config, detector, refused, handling>>
      BY <2>1 DEF Subscribe
    <3>2. encoded' \subseteq {"pumpfun", "raydium"}
      BY <2>1, Zenon DEF Subscribe
    <3> QED
      BY <3>1, <3>2 DEF Inv, TypeOK
  <2>2. CASE CallEnds
    <3>1. /\ pc = "recv" /\ pc' = "subscribe" /\ UNCHANGED <<env, detector, request, encoded, handling>>
          /\ \E refusal \in BOOLEAN :
               /\ refused' = (refused \/ refusal)
               /\ config' = IF refusal /\ config.from_slot_set
                            THEN [config EXCEPT !.from_slot_set = FALSE, !.from_slot = 0] ELSE config
      BY <2>2, Zenon DEF CallEnds
    <3> QED
      BY <3>1 DEF Inv, TypeOK
  <2> QED
    BY <2>1, <2>2
<1>2. IsConfig(config)
  BY DEF Inv, Configured
<1>3. /\ DOMAIN config' = DOMAIN config
      /\ config'.queue_capacity = config.queue_capacity
      /\ config'.pumpfun_enabled = config.pumpfun_enabled
      /\ config'.raydium_enabled = config.raydium_enabled
      /\ config'.pumpfun_program = config.pumpfun_program
      /\ config'.raydium_program = config.raydium_program
  BY <1>1, <1>2, ZenonT(30) DEF IsConfig, ConfigFields
<1>4. Configured'
  BY <1>1, <1>3 DEF Inv, Configured, IsConfig
<1>5. wire = <<>> /\ derefs = {} /\ proto = "NONE" /\ line = 1 /\ pushed = <<>>
  BY <1>1 DEF Inv, Holding
<1>6. UNCHANGED <<wire, derefs, proto, line, pushed, starved>>
  BY <1>1 DEF handling
<1>7. TypeOK'
  BY <1>1, <1>4, <1>5, <1>6 DEF Inv, TypeOK, Configured, IsConfig
<1>8. NoNullDereference' /\ Holding' /\ Guarded' /\ EventMatchesReference' /\ OverrunByOne'
  BY <1>1, <1>5, <1>6 DEF NoNullDereference, Holding, Guarded, EventMatchesReference, OverrunByOne
<1> QED
  BY <1>4, <1>7, <1>8 DEF Inv

LEMMA ReceiveInv == Inv /\ (Receive \/ Free) => Inv'
<1> SUFFICES ASSUME Inv, Receive \/ Free PROVE Inv'
  OBVIOUS
<1>1. UNCHANGED start
  BY DEF Receive, Free
<1>2. Configured' /\ UNCHANGED <<encoded, refused>>
  BY <1>1 DEF Inv, Configured, start
<1>3. CASE Receive
  <2>1. /\ pc = "recv" /\ pc' = "unpacked" /\ wire' \in Updates /\ update' = Unpack(wire')
        /\ UNCHANGED <<proto, line, pushed, starved, derefs>>
    BY <1>3 DEF Receive
  <2>2. derefs = {} /\ proto = "NONE" /\ line = 1 /\ pushed = <<>>
    BY <2>1 DEF Inv, Holding
  <2>3. \A k \in DOMAIN wire' : wire'[k].tag \in Nat
    BY <2>1, IngestAssumption
  <2>4. TypeOK'
    BY <1>2, <2>1, <2>2, <2>3 DEF Inv, TypeOK, Configured, IsConfig
  <2>5. Holding'
    BY <2>1, <2>2 DEF Holding
  <2>6. NoNullDereference' /\ Guarded' /\ EventMatchesReference' /\ OverrunByOne'
    BY <2>1, <2>2 DEF NoNullDereference, Guarded, EventMatchesReference, OverrunByOne
  <2> QED
    BY <1>2, <2>4, <2>5, <2>6 DEF Inv
<1>4. CASE Free
  <2>1. /\ pc' = "recv" /\ wire' = <<>> /\ proto' = "NONE" /\ line' = 1
        /\ pushed' = <<>> /\ starved' = FALSE /\ derefs' = {}
    BY <1>4 DEF Free
  <2>2. TypeOK'
    <3>1. env' \in Envs /\ config'.queue_capacity >= 1024
      BY <1>2 DEF Configured, IsConfig
    <3>2. refused' \in BOOLEAN /\ starved' \in BOOLEAN /\ encoded' \subseteq {"pumpfun", "raydium"}
      BY <1>2, <2>1, Zenon DEF Inv, TypeOK
    <3> QED
      BY <2>1, <3>1, <3>2 DEF TypeOK
  <2>3. NoNullDereference' /\ Holding' /\ Guarded' /\ EventMatchesReference' /\ OverrunByOne'
    BY <2>1 DEF NoNullDereference, Holding, Guarded, EventMatchesReference, OverrunByOne
  <2> QED
    BY <1>2, <2>2, <2>3 DEF Inv
<1> QED
  BY <1>3, <1>4

(* The steps of the handler.  They leave the configuration and the update  *)
(* as they are, and so what the reference says.                            *)
LEMMA Kept ==
  ASSUME Inv, pc \in {"unpacked", "process", "scan", "free"},
         UNCHANGED <<start, wire, update>>
  PROVE  /\ InHand /\ InHand' /\ Configured /\ Configured'
         /\ MayPush(wire, config, pushed', starved') => EventMatchesReference'
         /\ UNCHANGED <<encoded, refused>>
         /\ \A p : Present(p)' <=> Present(p)
         /\ Passed' <=> Passed
         /\ Keys' = Keys /\ Logs' = Logs /\ LookedAt' = LookedAt
         /\ \A k \in DOMAIN wire' : wire'[k].tag \in Nat
<1>1. InHand /\ InHand' /\ Configured /\ Configured' /\ UNCHANGED <<encoded, refused>>
  BY DEF Inv, Holding, Configured, InHand, start
<1>2. MayPush(wire, config, pushed', starved') => EventMatchesReference'
  <2>1. wire' = wire /\ config' = config
    BY DEF start
  <2> QED
    BY <2>1, Zenon DEF EventMatchesReference
<1>3. \A p : Present(p)' <=> Present(p)
  BY DEF Present
<1>4. Passed' <=> Passed
  BY <1>3 DEF Passed
<1>5. Keys' = Keys /\ Logs' = Logs
  BY DEF Keys, Logs
<1>6. LookedAt' = LookedAt
  BY <1>5 DEF LookedAt
<1>7. \A k \in DOMAIN wire' : wire'[k].tag \in Nat
  BY DEF Inv, TypeOK
<1> QED
  BY <1>1, <1>2, <1>3, <1>4, <1>5, <1>6, <1>7

Structs == {Tx, Info, SolTx, Msg, AccountKeys, Meta}

(* What the guards of handle_transaction read is there: each of them is    *)
(* tested only behind the one that contains it.                            *)
ReadBy(tested) == {Parent(Guards[k]) : k \in {j \in tested : Guards[j] # Tx}}

LEMMA GuardsRead ==
  ASSUME NEW p \in ReadBy(Tested)
  PROVE  Present(p) /\ p \in Structs
<1>1. /\ Guards[1] = Tx /\ Guards[2] = Info /\ Guards[3] = SolTx /\ Guards[4] = Msg
      /\ Guards[5] = AccountKeys /\ DOMAIN Guards = 1 .. 5
  BY DEF Guards
<1>2. Info # Tx /\ SolTx # Tx /\ Msg # Tx /\ AccountKeys # Tx
  BY DEF Tx, Info, SolTx, Msg, AccountKeys
<1> DEFINE T == {"transaction", "message", "account_keys"}
<1>3. Tx \in Seq(T) /\ Info \in Seq(T) /\ SolTx \in Seq(T) /\ Msg \in Seq(T)
  BY DEF Tx, Info, SolTx, Msg
<1>4. /\ Longer(Tx, "transaction", Info) /\ Longer(Info, "transaction", SolTx)
      /\ Longer(SolTx, "message", Msg) /\ Longer(Msg, "account_keys", AccountKeys)
  BY DEF Longer, Tx, Info, SolTx, Msg, AccountKeys
<1>5. "transaction" \in T /\ "message" \in T /\ "account_keys" \in T
  OBVIOUS
<1>6. Parent(Info) = Tx /\ Parent(SolTx) = Info /\ Parent(Msg) = SolTx /\ Parent(AccountKeys) = Msg
  BY <1>3, <1>4, <1>5, ParentOfLonger, ZenonT(30)
<1>7. PICK k \in Tested : Guards[k] # Tx /\ p = Parent(Guards[k])
  BY DEF ReadBy
<1>8. k \in 2 .. 5 /\ \A j \in 1 .. k - 1 : Present(Guards[j])
  BY <1>1, <1>7 DEF Tested
<1>9. Present(Guards[k - 1])
  BY <1>8
<1>10. p = Guards[k - 1]
  BY <1>1, <1>6, <1>7, <1>8
<1>11. Guards[k - 1] \in {Tx, Info, SolTx, Msg}
  BY <1>1, <1>8
<1> QED
  BY <1>9, <1>10, <1>11 DEF Structs

(* Nothing may be pushed where the guards fail, where no account that is   *)
(* looked at is one of the programs, or where there are no lines.          *)
LEMMA NoEvent ==
  ASSUME Configured, InHand, NEW lack,
         \/ ~Present(Tx) \/ ~Passed \/ ~Present(LogMessages)
         \/ Kind = "NONE" \/ \A k \in DOMAIN Logs : ~Promised(k)
  PROVE  MayPush(wire, config, <<>>, lack)
<1>1. Allowed(<<>>, lack)
  <2>1. CASE ~Present(Tx) \/ ~Present(AccountKeys)
    BY <2>1 DEF Allowed, Readable
  <2>2. CASE Present(Tx) /\ Present(AccountKeys)
    <3>1. Passed
      BY <2>2, Nesting
    <3> QED
      BY <3>1 DEF Allowed, Readable
  <2> QED
    BY <2>1, <2>2
<1> QED
  BY <1>1, ReferenceIs

LEMMA PassedTx ==
  ASSUME Passed
  PROVE  Present(Tx) /\ Present(Info) /\ Present(Msg) /\ Present(AccountKeys)
<1>1. /\ DOMAIN Guards = 1 .. 5 /\ Guards[1] = Tx /\ Guards[2] = Info
      /\ Guards[4] = Msg /\ Guards[5] = AccountKeys
  BY DEF Guards
<1> QED
  BY <1>1 DEF Passed

LEMMA HandleNothingInv == Inv /\ HandleNothing => Inv'
<1> SUFFICES ASSUME Inv, HandleNothing PROVE Inv'
  OBVIOUS
<1>1. /\ pc = "unpacked" /\ pc' = "free"
      /\ UNCHANGED <<start, wire, update, proto, line, pushed, starved>>
      /\ \/ ~Present(Tx) /\ derefs' = derefs
         \/ ~Passed /\ derefs' = ReadBy(Tested)
  BY DEF HandleNothing, Present, ReadBy
<1>2. pushed = <<>> /\ proto = "NONE" /\ line = 1
  BY <1>1 DEF Inv, Holding
<1>3. /\ InHand /\ InHand' /\ Configured /\ Configured'
      /\ MayPush(wire, config, pushed', starved') => EventMatchesReference'
      /\ UNCHANGED <<encoded, refused>>
      /\ \A p : Present(p)' <=> Present(p)
      /\ \A k \in DOMAIN wire' : wire'[k].tag \in Nat
  BY <1>1, Kept
<1>4. MayPush(wire, config, <<>>, starved)
  BY <1>1, <1>3, NoEvent
<1>5. \A p \in derefs' : Present(p) /\ p \in Structs
  BY <1>1, GuardsRead DEF Inv, NoNullDereference, TypeOK, Structs
<1>6. TypeOK'
  BY <1>1, <1>2, <1>3, <1>5 DEF Inv, TypeOK, Structs, Configured, IsConfig
<1>7. NoNullDereference'
  BY <1>3, <1>5 DEF NoNullDereference
<1>8. Holding' /\ Guarded' /\ OverrunByOne'
  BY <1>1, <1>3 DEF Holding, Guarded, InHand, OverrunByOne
<1>9. EventMatchesReference'
  BY <1>1, <1>2, <1>3, <1>4
<1> QED
  BY <1>3, <1>6, <1>7, <1>8, <1>9 DEF Inv

LEMMA HandleTransactionInv == Inv /\ HandleTransaction => Inv'
<1> SUFFICES ASSUME Inv, HandleTransaction PROVE Inv'
  OBVIOUS
<1>1. /\ pc = "unpacked" /\ Present(Tx) /\ Passed
      /\ derefs' = ReadBy(Tested) \cup {Msg, AccountKeys, Info}
      /\ proto' = Kind /\ pc' = IF proto' = "NONE" THEN "free" ELSE "process"
      /\ UNCHANGED <<start, wire, update, line, pushed, starved>>
  BY DEF HandleTransaction, Present, ReadBy, Kind, LookedAt, Keys
<1>2. pushed = <<>> /\ line = 1
  BY <1>1 DEF Inv, Holding
<1>3. /\ InHand /\ InHand' /\ Configured /\ Configured'
      /\ MayPush(wire, config, pushed', starved') => EventMatchesReference'
      /\ UNCHANGED <<detector, encoded, refused>>
      /\ \A p : Present(p)' <=> Present(p)
      /\ Passed' /\ LookedAt' = LookedAt
      /\ \A k \in DOMAIN wire' : wire'[k].tag \in Nat
  BY <1>1, Kept DEF start
<1>4. Present(Info) /\ Present(Msg) /\ Present(AccountKeys)
  BY <1>1, PassedTx
<1>5. Kind \in {"NONE", "PUMPFUN", "RAYDIUM"}
  BY <1>1, <1>3, <1>4, KindIs
<1>6. \A p \in derefs' : Present(p) /\ p \in Structs
  BY <1>1, <1>4, GuardsRead DEF Structs
<1>7. TypeOK'
  BY <1>1, <1>2, <1>3, <1>5, <1>6 DEF Inv, TypeOK, Structs, Configured, IsConfig
<1>8. NoNullDereference'
  BY <1>3, <1>6 DEF NoNullDereference
<1>9. Holding' /\ OverrunByOne'
  BY <1>1, <1>3 DEF Holding, InHand, OverrunByOne
<1>10. Guarded'
  BY <1>1, <1>2, <1>3 DEF Guarded, Kind
<1>11. EventMatchesReference'
  <2>1. CASE Kind = "NONE"
    <3>1. MayPush(wire, config, <<>>, starved)
      BY <1>3, <2>1, NoEvent
    <3> QED
      BY <1>1, <1>2, <1>3, <3>1
  <2>2. CASE Kind # "NONE"
    BY <1>1, <2>2 DEF EventMatchesReference
  <2> QED
    BY <2>1, <2>2
<1> QED
  BY <1>3, <1>7, <1>8, <1>9, <1>10, <1>11 DEF Inv

LEMMA ProcessInv == Inv /\ Process => Inv'
<1> SUFFICES ASSUME Inv, Process PROVE Inv'
  OBVIOUS
<1>1. /\ pc = "process" /\ derefs' = IF Present(Meta) THEN derefs \cup {Meta} ELSE derefs
      /\ pc' = IF Present(Meta) /\ Present(LogMessages) THEN "scan" ELSE "free"
      /\ UNCHANGED <<start, wire, update, proto, line, pushed, starved>>
  BY DEF Process
<1>2. Passed /\ pushed = <<>> /\ proto # "NONE" /\ proto = Kind /\ line = 1
  BY <1>1 DEF Inv, Guarded, Kind
<1>3. /\ InHand /\ InHand' /\ Configured /\ Configured'
      /\ MayPush(wire, config, pushed', starved') => EventMatchesReference'
      /\ UNCHANGED <<env, config, detector, encoded, refused>>
      /\ \A p : Present(p)' <=> Present(p)
      /\ Passed' /\ LookedAt' = LookedAt /\ Logs' = Logs
      /\ \A k \in DOMAIN wire' : wire'[k].tag \in Nat
  BY <1>1, <1>2, Kept DEF start
<1>4. Present(Tx)
  BY <1>2, PassedTx
<1>5. \A p \in derefs' : Present(p) /\ p \in Structs
  BY <1>1 DEF Inv, NoNullDereference, TypeOK, Structs
<1>6. TypeOK'
  BY <1>1, <1>2, <1>3, <1>5 DEF Inv, TypeOK, Structs
<1>7. NoNullDereference'
  BY <1>3, <1>5 DEF NoNullDereference
<1>8. Holding' /\ OverrunByOne'
  BY <1>1, <1>3 DEF Holding, InHand, OverrunByOne
<1>9. Guarded'
  <2>1. pc' # "process" /\ (pc' = "scan" => Present(Meta) /\ Present(LogMessages))
    BY <1>1
  <2>2. Present(LogMessages) => 1 \in 1 .. Len(Logs) + 1
    BY <1>3, <1>4, Nesting
  <2> QED
    BY <1>1, <1>2, <1>3, <2>1, <2>2 DEF Guarded, Kind
<1>10. EventMatchesReference'
  <2>1. pc' = "free" => ~Present(LogMessages)
    BY <1>1, <1>3, <1>4, Nesting
  <2>2. CASE Present(LogMessages)
    BY <2>1, <2>2 DEF EventMatchesReference
  <2>3. CASE ~Present(LogMessages)
    <3>1. MayPush(wire, config, <<>>, starved)
      BY <1>3, <2>3, NoEvent
    <3> QED
      BY <1>1, <1>2, <1>3, <3>1
  <2> QED
    BY <2>2, <2>3
<1> QED
  BY <1>3, <1>6, <1>7, <1>8, <1>9, <1>10 DEF Inv

(* What is known at the lines.                                             *)
LEMMA AtLines ==
  ASSUME Inv, pc = "scan"
  PROVE  /\ InHand /\ Configured /\ Present(Tx) /\ Present(Info) /\ Present(AccountKeys)
         /\ Present(LogMessages) /\ pushed = <<>>
         /\ proto = Kind /\ Kind # "NONE"
         /\ DOMAIN Logs = 1 .. Len(Logs) /\ Len(Logs) \in Nat /\ line \in 1 .. Len(Logs) + 1
         /\ Logs \in Seq(Line) /\ \A k \in 1 .. line - 1 : ~Parsed(Kind, Logs[k])
<1>1. /\ InHand /\ Configured /\ Passed /\ Present(LogMessages) /\ pushed = <<>>
      /\ proto = Kind /\ Kind # "NONE" /\ line \in 1 .. Len(Logs) + 1
      /\ \A k \in 1 .. line - 1 : ~Parsed(proto, Logs[k])
  BY DEF Inv, Holding, Guarded, InHand, Kind
<1>2. Present(Tx) /\ Present(Info) /\ Present(AccountKeys)
  BY <1>1, PassedTx
<1>3. Logs \in Seq(Line)
  BY <1>1, <1>2, Nesting
<1> QED
  BY <1>1, <1>2, <1>3

(* A line that is not parsed was not promised.                             *)
LEMMA NotPromised ==
  ASSUME Logs \in Seq(Line), NEW k \in DOMAIN Logs, ~Parsed(Kind, Logs[k])
  PROVE  ~Promised(k)
<1>1. Logs[k] \in Line
  OBVIOUS
<1> QED
  BY <1>1, SoundParsed DEF Promised

LEMMA SkipLineInv == Inv /\ SkipLine => Inv'
<1> SUFFICES ASSUME Inv, SkipLine PROVE Inv'
  OBVIOUS
<1>1. /\ pc = "scan" /\ pc' = pc /\ line <= Len(Logs) /\ ~Parsed(proto, Logs[line]) /\ line' = line + 1
      /\ UNCHANGED <<start, wire, update, proto, pushed, starved, derefs>>
  BY DEF SkipLine, Logs
<1>2. /\ Configured' /\ InHand'
      /\ \A p : Present(p)' <=> Present(p)
      /\ Passed' <=> Passed
      /\ LookedAt' = LookedAt /\ Logs' = Logs
      /\ \A k \in DOMAIN wire' : wire'[k].tag \in Nat
      /\ UNCHANGED <<env, config, detector, encoded, refused>>
  BY <1>1, Kept DEF start
<1>3. Len(Logs) \in Nat /\ line \in 1 .. Len(Logs) + 1
  BY <1>1, AtLines
<1>4. line' \in 1 .. Len(Logs) + 1
  BY <1>1, <1>3
<1>5. \A k \in 1 .. line' - 1 : ~Parsed(proto, Logs[k])
  <2>1. \A k \in 1 .. line - 1 : ~Parsed(proto, Logs[k])
    BY <1>1 DEF Inv, Guarded
  <2>2. 1 .. line' - 1 = (1 .. line - 1) \cup {line}
    BY <1>1, <1>3
  <2> QED
    BY <1>1, <2>1, <2>2
<1>6. TypeOK'
  BY <1>1, <1>2, <1>3 DEF Inv, TypeOK
<1>7. NoNullDereference'
  BY <1>1, <1>2 DEF Inv, NoNullDereference
<1>8. Holding' /\ EventMatchesReference' /\ OverrunByOne'
  BY <1>1, <1>2 DEF Holding, EventMatchesReference, InHand, OverrunByOne
<1>9. Guarded'
  BY <1>1, <1>2, <1>4, <1>5 DEF Inv, Guarded
<1> QED
  BY <1>2, <1>6, <1>7, <1>8, <1>9 DEF Inv

LEMMA OverrunInv == Inv /\ Overrun => Inv'
<1> SUFFICES ASSUME Inv, Overrun PROVE Inv'
  OBVIOUS
<1>1. /\ pc = "scan" /\ pc' = "overrun" /\ line <= Len(Logs) /\ Overruns(proto, Logs[line])
      /\ UNCHANGED <<start, wire, update, proto, line, pushed, starved, derefs>>
  BY DEF Overrun, Logs, handling
<1>2. /\ Configured' /\ \A p : Present(p)' <=> Present(p)
      /\ \A k \in DOMAIN wire' : wire'[k].tag \in Nat
      /\ UNCHANGED <<env, config, encoded, refused>>
  BY <1>1, Kept DEF start
<1>3. /\ DOMAIN Logs = 1 .. Len(Logs) /\ Len(Logs) \in Nat /\ line \in 1 .. Len(Logs) + 1
      /\ Logs \in Seq(Line) /\ proto = Kind /\ Kind # "NONE"
  BY <1>1, AtLines
<1>4. Logs[line] \in Line /\ proto \in {"PUMPFUN", "RAYDIUM"}
  BY <1>1, <1>3 DEF Inv, TypeOK
<1>5. /\ proto = "RAYDIUM" /\ Logs[line].len = 684 /\ Logs[line].skipped = 0
      /\ Logs[line].padding > 0
  BY <1>1, <1>4, OverrunsByOne
<1>6. OverrunByOne'
  BY <1>1, <1>5 DEF OverrunByOne, Logs
<1>7. TypeOK' /\ NoNullDereference'
  BY <1>1, <1>2 DEF Inv, TypeOK, NoNullDereference
<1>8. Holding' /\ Guarded' /\ EventMatchesReference'
  BY <1>1 DEF Holding, Guarded, EventMatchesReference
<1> QED
  BY <1>2, <1>6, <1>7, <1>8 DEF Inv

LEMMA DispatchInv == Inv /\ Dispatch => Inv'
<1> SUFFICES ASSUME Inv, Dispatch PROVE Inv'
  OBVIOUS
<1>1. /\ pc = "scan" /\ pc' = "free" /\ line <= Len(Logs) /\ Parsed(proto, Logs[line])
      /\ derefs' = derefs \cup {Tx, Info}
      /\ UNCHANGED <<start, wire, update, proto, line>>
  BY DEF Dispatch, Logs
<1>2. PICK calloc \in BOOLEAN : pushed' = Append(pushed, NewEvent(calloc)) /\ starved' = ~calloc
  BY Zenon DEF Dispatch
<1>3. /\ InHand /\ Configured /\ Present(Tx) /\ Present(Info) /\ Present(AccountKeys)
      /\ Present(LogMessages) /\ pushed = <<>> /\ proto = Kind /\ Kind # "NONE"
      /\ DOMAIN Logs = 1 .. Len(Logs) /\ Len(Logs) \in Nat /\ line \in 1 .. Len(Logs) + 1
      /\ Logs \in Seq(Line) /\ \A k \in 1 .. line - 1 : ~Parsed(Kind, Logs[k])
  BY <1>1, AtLines
<1>4. /\ Configured' /\ InHand' /\ (MayPush(wire, config, pushed', starved') => EventMatchesReference')
      /\ \A p : Present(p)' <=> Present(p)
      /\ \A k \in DOMAIN wire' : wire'[k].tag \in Nat
      /\ UNCHANGED <<env, config, encoded, refused>>
  BY <1>1, Kept DEF start
<1>5. \A p \in derefs' : Present(p) /\ p \in Structs
  BY <1>1, <1>3 DEF Inv, NoNullDereference, TypeOK, Structs
<1>6. starved' \in BOOLEAN
  BY <1>2, Zenon
<1>7. TypeOK'
  BY <1>1, <1>4, <1>5, <1>6 DEF Inv, TypeOK, Structs
<1>8. NoNullDereference'
  BY <1>4, <1>5 DEF NoNullDereference
<1>9. Holding' /\ Guarded' /\ OverrunByOne'
  BY <1>1, <1>4 DEF Holding, Guarded, InHand, OverrunByOne
<1> DEFINE event == NewEvent(calloc)
           text == event.signature
<1>10. event = [type |-> Kind, line |-> line,
                slot |-> IF Present(Slot) THEN update.has[Slot] ELSE 0,
                signature |-> text]
  BY <1>3 DEF NewEvent
<1>11. IF ~Present(Signature) \/ update.has[Signature] = <<>> THEN text = <<>>
       ELSE Signs(text, update.has[Signature]) \/ (starved' /\ text = <<>>)
  <2>1. text = IF Present(Signature) THEN SignatureText[calloc][update.has[Signature]] ELSE <<>>
    BY DEF NewEvent
  <2> HIDE DEF text
  <2>2. CASE ~Present(Signature)
    BY <2>1, <2>2
  <2>3. CASE Present(Signature) /\ update.has[Signature] = <<>>
    <3>1. <<>> \in Signatures
      BY <1>3, <2>3, Nesting
    <3>2. SignatureText[calloc][<<>>] = <<>>
      BY <3>1, Zenon DEF SignatureText
    <3> QED
      BY <2>1, <2>3, <3>2
  <2>4. CASE Present(Signature) /\ update.has[Signature] # <<>>
    <3> DEFINE s == update.has[Signature]
    <3>1. s \in Signatures /\ s # <<>> /\ text = SignatureText[calloc][s]
      BY <1>3, <2>1, <2>4, Nesting
    <3> HIDE DEF s
    <3>2. Signs(SignatureText[calloc][s], s) \/ (~calloc /\ SignatureText[calloc][s] = <<>>)
      BY <3>1, SignatureSigns
    <3>3. Signs(text, s) \/ (starved' /\ text = <<>>)
      BY <1>2, <3>1, <3>2, Zenon
    <3> QED
      BY <2>4, <3>3, Zenon DEF s
  <2> QED
    BY <2>2, <2>3, <2>4
<1>12. pushed' = <<event>>
  BY <1>2, <1>3
<1> HIDE DEF event
<1>13. line \in DOMAIN Logs /\ Full(Kind, Logs[line])
  <2>1. line \in DOMAIN Logs /\ Logs[line] \in Line /\ Kind \in {"PUMPFUN", "RAYDIUM"}
    BY <1>1, <1>3 DEF Inv, TypeOK
  <2> QED
    BY <1>1, <1>3, <2>1, ParsedFull
<1>14. \A k \in 1 .. line - 1 : ~Promised(k)
  <2>1. \A k \in 1 .. line - 1 : k \in DOMAIN Logs
    BY <1>3
  <2> QED
    BY <1>3, <2>1, NotPromised
<1>15. Allowed(pushed', starved')
  <2>1. Readable /\ Kind # "NONE"
    BY <1>3 DEF Readable
  <2>2. pushed' = <<[type |-> Kind, line |-> line,
                     slot |-> IF Present(Slot) THEN update.has[Slot] ELSE 0,
                     signature |-> text]>>
    BY <1>10, <1>12, Zenon
  <2> HIDE DEF text
  <2> QED
    BY <1>11, <1>13, <1>14, <2>1, <2>2, Zenon DEF Allowed
<1>16. MayPush(wire, config, pushed', starved')
  BY <1>3, <1>15, ReferenceIs, Zenon
<1> QED
  BY <1>4, <1>7, <1>8, <1>9, <1>16 DEF Inv

LEMMA LinesEndInv == Inv /\ LinesEnd => Inv'
<1> SUFFICES ASSUME Inv, LinesEnd PROVE Inv'
  OBVIOUS
<1>1. /\ pc = "scan" /\ pc' = "free" /\ line > Len(Logs)
      /\ UNCHANGED <<start, wire, update, proto, line, pushed, starved, derefs>>
  BY DEF LinesEnd, handling, Logs
<1>2. /\ InHand /\ Configured /\ pushed = <<>>
      /\ DOMAIN Logs = 1 .. Len(Logs) /\ Len(Logs) \in Nat /\ line \in 1 .. Len(Logs) + 1
      /\ Logs \in Seq(Line) /\ \A k \in 1 .. line - 1 : ~Parsed(Kind, Logs[k])
  BY <1>1, AtLines
<1>3. /\ Configured' /\ InHand' /\ (MayPush(wire, config, pushed', starved') => EventMatchesReference')
      /\ \A p : Present(p)' <=> Present(p)
      /\ \A k \in DOMAIN wire' : wire'[k].tag \in Nat
      /\ UNCHANGED <<env, config, encoded, refused>>
  BY <1>1, Kept DEF start
<1>4. \A k \in DOMAIN Logs : ~Promised(k)
  <2>1. \A k \in DOMAIN Logs : ~Parsed(Kind, Logs[k])
    BY <1>1, <1>2
  <2> QED
    BY <1>2, <2>1, NotPromised
<1>5. EventMatchesReference'
  <2>1. MayPush(wire, config, <<>>, starved)
    BY <1>2, <1>4, NoEvent
  <2> QED
    BY <1>1, <1>2, <1>3, <2>1
<1>6. TypeOK' /\ NoNullDereference'
  BY <1>1, <1>3 DEF Inv, TypeOK, NoNullDereference
<1>7. Holding' /\ Guarded' /\ OverrunByOne'
  BY <1>1, <1>3 DEF Holding, Guarded, InHand, OverrunByOne
<1> QED
  BY <1>3, <1>5, <1>6, <1>7 DEF Inv

LEMMA StutterInv == Inv /\ UNCHANGED vars => Inv'
<1> SUFFICES ASSUME Inv, UNCHANGED vars PROVE Inv'
  OBVIOUS
<1>1. UNCHANGED <<pc, env, config, detector, encoded, refused, wire, update, proto, line, pushed,
                  starved, derefs>>
  BY DEF vars, start, handling
<1>2. \A p : Present(p)' <=> Present(p)
  BY <1>1 DEF Present
<1>3. TypeOK' /\ NoNullDereference'
  BY <1>1, <1>2 DEF Inv, TypeOK, NoNullDereference
<1>4. Configured' /\ Holding'
  BY <1>1 DEF Inv, Configured, Holding
<1>5. Passed' = Passed /\ Logs' = Logs /\ LookedAt' = LookedAt
  BY <1>1, <1>2 DEF Passed, Logs, LookedAt, Keys
<1>6. Guarded'
  BY <1>1, <1>2, <1>5 DEF Inv, Guarded
<1>7. EventMatchesReference'
  BY <1>1, Zenon DEF Inv, EventMatchesReference
<1>8. OverrunByOne'
  BY <1>1 DEF Inv, OverrunByOne
<1> QED
  BY <1>3, <1>4, <1>6, <1>7, <1>8 DEF Inv

LEMMA InvHolds == Spec => []Inv
<1>1. Inv /\ [Next]_vars => Inv'
  BY LoadInv, CallInv, ReceiveInv, HandleNothingInv, HandleTransactionInv, ProcessInv,
     SkipLineInv, OverrunInv, DispatchInv, LinesEndInv, StutterInv
     DEF Next, Handle, Over
<1> QED
  BY <1>1, InitInv, PTL DEF Spec

-----------------------------------------------------------------------------
(* The request                                                             *)

(* The configuration is the one of the environment, but for a replay slot  *)
(* that has been refused, and the request is the one it leads to.          *)
Loaded ==
  /\ pc = "load" => ~refused
  /\ pc \notin {"load", "failed"} =>
       /\ config.pumpfun_enabled = (env.pumpfun # <<>>)
       /\ env.pumpfun # <<>> => ValidId(env.pumpfun) /\ config.pumpfun_program = IdOf(env.pumpfun)
       /\ config.raydium_enabled = (env.raydium # <<>>)
       /\ env.raydium # <<>> => ValidId(env.raydium) /\ config.raydium_program = IdOf(env.raydium)
       /\ config.from_slot_set = (env.from_slot # Unset /\ ~refused)
       /\ config.from_slot_set => config.from_slot = env.from_slot

Requested ==
  pc \in {"recv", "unpacked", "process", "scan", "free"} => request = SubscribePayload(encoded)

Asked == Loaded /\ Requested

(* The request depends on the configuration and the detector alone.        *)
LEMMA SamePayload ==
  ASSUME UNCHANGED <<config, detector, encoded>>
  PROVE  SubscribePayload(encoded)' = SubscribePayload(encoded)
  BY DEF SubscribePayload, RequestMembers, account_includes, Filter

LEMMA AskedHolds == Spec => []Asked
<1>1. Init => Asked
  BY DEF Init, Asked, Loaded, Requested
<1>2. ASSUME Inv, Asked, [Next]_vars PROVE Asked'
  <2>1. CASE Load
    <3>1. PICK calloc \in BOOLEAN :
            LET loaded == yurei_config_load(env, calloc)
            IN /\ pc = "load" /\ pc' = IF loaded.ok THEN "subscribe" ELSE "failed"
               /\ config' = (IF loaded.ok THEN loaded.config ELSE config)
               /\ UNCHANGED <<env, refused>>
      BY <2>1, Zenon DEF Load
    <3> DEFINE loaded == yurei_config_load(env, calloc)
    <3>2. loaded.ok => LoadedFrom(env, loaded.config)
      <4>1. env.pumpfun \in Seq(Nat) /\ env.raydium \in Seq(Nat)
        BY <1>2, IngestAssumption DEF Inv, TypeOK
      <4> QED
        BY <4>1, LoadIs
    <3> HIDE DEF loaded
    <3>3. /\ pc = "load" /\ pc' = IF loaded.ok THEN "subscribe" ELSE "failed"
          /\ config' = (IF loaded.ok THEN loaded.config ELSE config)
          /\ UNCHANGED <<env, refused>>
      BY <3>1, Zenon DEF loaded
    <3>4. Requested'
      BY <3>3 DEF Requested
    <3>5. ~refused
      BY <1>2, <3>3 DEF Asked, Loaded
    <3>6. Loaded'
      <4>1. CASE loaded.ok
        BY <3>2, <3>3, <3>5, <4>1 DEF Loaded, LoadedFrom
      <4>2. CASE ~loaded.ok
        BY <3>3, <4>2 DEF Loaded
      <4> QED
        BY <4>1, <4>2
    <3> QED
      BY <3>4, <3>6 DEF Asked
  <2>2. CASE Subscribe
    <3>1. /\ pc = "subscribe" /\ pc' = "recv" /\ UNCHANGED <<env, config, detector, refused>>
          /\ \E got \in SUBSET {"pumpfun", "raydium"} : request' = SubscribePayload(got) /\ encoded' = got
      BY <2>2 DEF Subscribe
    <3>2. request' = SubscribePayload(encoded)'
      BY <3>1 DEF SubscribePayload, RequestMembers, account_includes, Filter
    <3> QED
      BY <1>2, <3>1, <3>2 DEF Asked, Loaded, Requested
  <2>3. CASE CallEnds
    <3>1. /\ pc = "recv" /\ pc' = "subscribe" /\ env' = env
      BY <2>3 DEF CallEnds
    <3>2. PICK refusal \in BOOLEAN :
            /\ refused' = (refused \/ refusal)
            /\ config' = IF refusal /\ config.from_slot_set
                         THEN [config EXCEPT !.from_slot_set = FALSE, !.from_slot = 0] ELSE config
      BY <2>3 DEF CallEnds
    <3>3. ConfigFields \subseteq DOMAIN config
      BY <1>2 DEF Inv, Configured, IsConfig
    <3>4. /\ config'.pumpfun_enabled = config.pumpfun_enabled
          /\ config'.raydium_enabled = config.raydium_enabled
          /\ config'.pumpfun_program = config.pumpfun_program
          /\ config'.raydium_program = config.raydium_program
      BY <3>2, <3>3 DEF ConfigFields
    <3>5. \/ ~refusal /\ UNCHANGED <<config, refused>>
          \/ refusal /\ refused' /\ ~config.from_slot_set /\ config' = config
          \/ refusal /\ refused' /\ config'.from_slot_set = FALSE
      BY <1>2, <3>2, <3>3 DEF ConfigFields, Inv, TypeOK
    <3>6. /\ config.from_slot_set = (env.from_slot # Unset /\ ~refused)
          /\ config.from_slot_set => config.from_slot = env.from_slot
      BY <1>2, <3>1 DEF Asked, Loaded
    <3>7. /\ config'.from_slot_set = (env'.from_slot # Unset /\ ~refused')
          /\ config'.from_slot_set => config'.from_slot = env'.from_slot
      <4>1. CASE UNCHANGED <<config, refused>>
        BY <3>1, <3>6, <4>1
      <4>2. CASE refused' /\ config'.from_slot_set = FALSE
        BY <4>2
      <4>3. CASE refused' /\ ~config.from_slot_set /\ config' = config
        BY <3>6, <4>3
      <4> QED
        BY <3>5, <4>1, <4>2, <4>3
    <3> QED
      BY <1>2, <3>1, <3>4, <3>7 DEF Asked, Loaded, Requested
  <2>4. CASE Receive \/ Handle \/ Over \/ UNCHANGED vars
    <3>1. UNCHANGED <<env, config, detector, request, encoded, refused>>
      BY <2>4 DEF Receive, Handle, Over, HandleNothing, HandleTransaction, Process, SkipLine,
                  Overrun, Dispatch, LinesEnd, Free, vars, start
    <3> DEFINE handler == {"recv", "unpacked", "process", "scan", "free"}
    <3>2. (pc \in handler /\ pc' \in handler \cup {"overrun"}) \/ pc' = pc
      BY <2>4 DEF Receive, Handle, Over, HandleNothing, HandleTransaction, Process, SkipLine,
                  Overrun, Dispatch, LinesEnd, Free, vars
    <3>3. SubscribePayload(encoded)' = SubscribePayload(encoded)
      BY <3>1, SamePayload
    <3> QED
      BY <1>2, <3>1, <3>2, <3>3 DEF Asked, Loaded, Requested
  <2> QED
    BY <1>2, <2>1, <2>2, <2>3, <2>4 DEF Next
<1> QED
  BY <1>1, <1>2, InvHolds, PTL DEF Spec

(* Packing.                                                                *)
LEMMA PackedAt ==
  ASSUME NEW root \in Names, NEW struct, \A q \in DOMAIN struct : \E p : Leads(root, p, q),
         NEW path, NEW members, Leads(root, path, members)
  PROVE  /\ path \in DOMAIN Packed(root, struct) <=> members \in DOMAIN struct
         /\ members \in DOMAIN struct => Packed(root, struct)[path] = struct[members]
<1> DEFINE numbers == {Numbers(root, q) : q \in DOMAIN struct}
           c == CHOOSE q \in DOMAIN struct : Numbers(root, q) = path
<1>1. /\ DOMAIN Packed(root, struct) = numbers
      /\ path \in numbers => Packed(root, struct)[path] = struct[c]
  BY DEF Packed
<1>2. ASSUME NEW p, NEW q, Leads(root, p, q) PROVE Numbers(root, q) = p /\ Members(root, p) = q
  BY <1>2, NumbersOfMembers DEF Leads
<1>3. ASSUME NEW q \in DOMAIN struct, Numbers(root, q) = path PROVE q = members
  BY <1>2, <1>3
<1>4. Numbers(root, members) = path
  BY <1>2
<1>5. path \in numbers <=> members \in DOMAIN struct
  BY <1>3, <1>4
<1>6. members \in DOMAIN struct => c = members
  <2> SUFFICES ASSUME members \in DOMAIN struct PROVE c = members
    OBVIOUS
  <2>1. c \in DOMAIN struct /\ Numbers(root, c) = path
    BY <1>4
  <2> QED
    BY <1>3, <2>1
<1> HIDE DEF numbers, c
<1> QED
  BY <1>1, <1>5, <1>6

LEMMA RequestPaths ==
  LET root == "subscribe_request"
  IN /\ Leads(root, <<6>>, <<"commitment">>) /\ Leads(root, <<11>>, <<"from_slot">>)
     /\ Leads(root, <<3>>, <<"transactions">>) /\ Leads(root, <<3, 1>>, <<"transactions", "key">>)
     /\ Leads(root, <<3, 2>>, <<"transactions", "value">>)
     /\ Leads(root, <<3, 2, 3>>, <<"transactions", "value", "account_include">>)
<1> DEFINE root == "subscribe_request"
           entry == "subscribe_request__transactions_entry"
           filter == "subscribe_request_filter_transactions"
<1>1. root \in Names /\ entry \in Names /\ filter \in Names
  BY DEF Names, Descriptors
<1>2. entry \notin Scalars /\ filter \notin Scalars
  BY DEF Scalars
<1> USE DEF Message, Field, Optional, Repeated, HasField
<1>3. /\ HasField(root, 6, "commitment", "enum") /\ HasField(root, 11, "from_slot", "uint64")
      /\ HasField(root, 3, "transactions", entry)
  BY DEF Descriptors, subscribe_request
<1>4. HasField(entry, 1, "key", "string") /\ HasField(entry, 2, "value", filter)
  BY DEF Descriptors, subscribe_request__transactions_entry
<1>5. HasField(filter, 3, "account_include", "string")
  BY DEF Descriptors, subscribe_request_filter_transactions
<1> DEFINE none == <<>>
<1>6. Stands(root, none, none, root)
  BY <1>1, PathStart DEF Stands
<1>7. /\ Longer(none, 6, <<6>>) /\ Longer(none, 11, <<11>>) /\ Longer(none, 3, <<3>>)
      /\ Longer(<<3>>, 1, <<3, 1>>) /\ Longer(<<3>>, 2, <<3, 2>>) /\ Longer(<<3, 2>>, 3, <<3, 2, 3>>)
  BY DEF Longer
<1>8. /\ Longer(none, "commitment", <<"commitment">>) /\ Longer(none, "from_slot", <<"from_slot">>)
      /\ Longer(none, "transactions", <<"transactions">>)
      /\ Longer(<<"transactions">>, "key", <<"transactions", "key">>)
      /\ Longer(<<"transactions">>, "value", <<"transactions", "value">>)
      /\ Longer(<<"transactions", "value">>, "account_include",
                <<"transactions", "value", "account_include">>)
  BY DEF Longer
<1> HIDE DEF root, entry, filter, HasField, none
<1>9. Leads(root, <<6>>, <<"commitment">>) /\ Leads(root, <<11>>, <<"from_slot">>)
  BY <1>1, <1>3, <1>6, <1>7, <1>8, Descend
<1>10. /\ Leads(root, <<3>>, <<"transactions">>)
       /\ Stands(root, <<3>>, <<"transactions">>, entry)
  BY <1>1, <1>2, <1>3, <1>6, <1>7, <1>8, Descend
<1>11. Leads(root, <<3, 1>>, <<"transactions", "key">>)
  BY <1>1, <1>4, <1>7, <1>8, <1>10, Descend
<1>12. /\ Leads(root, <<3, 2>>, <<"transactions", "value">>)
       /\ Stands(root, <<3, 2>>, <<"transactions", "value">>, filter)
  BY <1>1, <1>2, <1>4, <1>7, <1>8, <1>10, Descend
<1>13. Leads(root, <<3, 2, 3>>, <<"transactions", "value", "account_include">>)
  BY <1>1, <1>5, <1>7, <1>8, <1>12, Descend
<1> QED
  BY <1>9, <1>10, <1>11, <1>12, <1>13 DEF root

(* A program id comes back from base58_decode and base58_encode as it was  *)
(* written, and fits the 64 bytes.                                         *)
LEMMA IdsRoundTrip ==
  ASSUME NEW text \in Seq(Nat), ValidId(text)
  PROVE  base58_encode(IdOf(text), 64, TRUE) = [ret |-> Len(text), out |-> text] /\ Len(text) > 0
<1>1. base58_decode(text, 32, TRUE).ret = 32 /\ IdOf(text) = base58_decode(text, 32, TRUE).out
  BY Zenon DEF ValidId, IdOf, ProgramId
<1> QED
  BY <1>1, EncodeDecoded, Zenon

(* The filter of a program: its text, if it is configured and there is     *)
(* memory.                                                                 *)
TextOf(text) == IF text # <<>> THEN <<text>> ELSE <<>>

LEMMA FilterIsText ==
  ASSUME NEW text \in Seq(Nat), NEW pattern, NEW calloc \in BOOLEAN,
         pattern.enabled = (text # <<>>),
         text # <<>> => ValidId(text) /\ pattern.program_id = IdOf(text)
  PROVE  Filter(pattern, calloc) = TextOf(IF calloc THEN text ELSE <<>>)
<1> DEFINE e == base58_encode(pattern.program_id, 64, calloc)
<1>1. Filter(pattern, calloc) = IF pattern.enabled /\ e.ret > 0 THEN <<e.out>> ELSE <<>>
  BY Zenon DEF Filter
<1>2. ~calloc => e = [ret |-> -1, out |-> <<>>]
  BY Zenon DEF base58_encode
<1>3. calloc /\ text # <<>> => e = [ret |-> Len(text), out |-> text] /\ Len(text) > 0
  <2> SUFFICES ASSUME calloc, text # <<>> PROVE e = [ret |-> Len(text), out |-> text] /\ Len(text) > 0
    OBVIOUS
  <2>1. calloc = TRUE /\ pattern.program_id = IdOf(text) /\ ValidId(text)
    BY Zenon
  <2>2. base58_encode(IdOf(text), 64, TRUE) = [ret |-> Len(text), out |-> text] /\ Len(text) > 0
    BY <2>1, IdsRoundTrip, Zenon
  <2> QED
    BY <2>1, <2>2, Zenon
<1> HIDE DEF e
<1>4. CASE ~calloc
  <2>1. ~(e.ret > 0)
    BY <1>2, <1>4
  <2> QED
    BY <1>1, <1>4, <2>1, Zenon DEF TextOf
<1>5. CASE calloc /\ text = <<>>
  BY <1>1, <1>5, Zenon DEF TextOf
<1>6. CASE calloc /\ text # <<>>
  <2>1. e = [ret |-> Len(text), out |-> text] /\ Len(text) > 0
    BY <1>3, <1>6, Zenon
  <2>2. e.ret = Len(text) /\ e.out = text
    BY <2>1, Zenon
  <2>3. e.ret > 0 /\ pattern.enabled
    BY <1>6, <2>1, <2>2, Zenon
  <2> QED
    BY <1>1, <1>6, <2>2, <2>3, Zenon DEF TextOf
<1> QED
  BY <1>4, <1>5, <1>6, Zenon

(* Sequences of one and of two.                                            *)
LEMMA Tuples ==
  ASSUME NEW x, NEW y
  PROVE  /\ <<>> \o <<y>> = <<y>> /\ <<x>> \o <<>> = <<x>> /\ <<x>> \o <<y>> = <<x, y>>
         /\ {<<x>>[k] : k \in DOMAIN <<x>>} = {x} /\ {<<x, y>>[k] : k \in DOMAIN <<x, y>>} = {x, y}
<1>1. <<>> \o <<y>> = <<y>>
  OBVIOUS
<1>2. <<x>> \o <<>> = <<x>>
  OBVIOUS
<1>3. <<x>> \o <<y>> = <<x, y>>
  <2> DEFINE T == {x, y}
             s == <<x>>
             t == <<y>>
             r == <<x, y>>
  <2>1. s \in Seq(T) /\ t \in Seq(T) /\ r \in Seq(T)
    OBVIOUS
  <2>2. /\ Len(s) = 1 /\ Len(t) = 1 /\ Len(r) = 2
        /\ s[1] = x /\ t[1] = y /\ r[1] = x /\ r[2] = y
    OBVIOUS
  <2> HIDE DEF T, s, t, r
  <2>3. s \o t \in Seq(T) /\ Len(s \o t) = 2 /\ (s \o t)[1] = x /\ (s \o t)[2] = y
    <3>1. s \o t \in Seq(T)
      BY <2>1
    <3>2. Len(s \o t) = Len(s) + Len(t)
      BY <2>1
    <3>3. \A k \in 1 .. Len(s) + Len(t) : (s \o t)[k] = IF k <= Len(s) THEN s[k] ELSE t[k - Len(s)]
      BY <2>1
    <3>4. (s \o t)[1] = x
      BY <2>2, <3>3
    <3>5. (s \o t)[2] = t[2 - 1]
      <4>1. 2 \in 1 .. Len(s) + Len(t) /\ ~(2 <= Len(s)) /\ Len(s) = 1
        BY <2>2
      <4>2. (s \o t)[2] = IF 2 <= Len(s) THEN s[2] ELSE t[2 - Len(s)]
        BY <3>3, <4>1, Zenon
      <4> QED
        BY <4>1, <4>2, Zenon
    <3> QED
      BY <2>2, <3>1, <3>2, <3>4, <3>5
  <2>4. s \o t = r
    BY <2>1, <2>2, <2>3
  <2> QED
    BY <2>4 DEF s, t, r
<1>4. {<<x>>[k] : k \in DOMAIN <<x>>} = {x}
  <2> DEFINE t == <<x>>
  <2>1. DOMAIN t = 1 .. 1 /\ t[1] = x
    OBVIOUS
  <2> HIDE DEF t
  <2>2. {t[k] : k \in DOMAIN t} = {x}
    BY <2>1
  <2> QED
    BY <2>2 DEF t
<1>5. {<<x, y>>[k] : k \in DOMAIN <<x, y>>} = {x, y}
  <2> DEFINE t == <<x, y>>
  <2>1. DOMAIN t = 1 .. 2 /\ t[1] = x /\ t[2] = y
    OBVIOUS
  <2> HIDE DEF t
  <2>2. {t[k] : k \in DOMAIN t} = {x, y}
    BY <2>1
  <2> QED
    BY <2>2 DEF t
<1> QED
  BY <1>1, <1>2, <1>3, <1>4, <1>5

(* The texts of the filters.                                               *)
FilterText(program, text) == IF program \in encoded THEN text ELSE <<>>
Wanted == {FilterText("pumpfun", env.pumpfun), FilterText("raydium", env.raydium)} \ {<<>>}

LEMMA IncludesAre ==
  ASSUME Configured, Loaded, pc \notin {"load", "failed"}
  PROVE  LET s == account_includes(encoded)
         IN (s # <<>> <=> Wanted # {}) /\ {s[k] : k \in DOMAIN s} = Wanted
<1> DEFINE a == FilterText("pumpfun", env.pumpfun)
           b == FilterText("raydium", env.raydium)
<1>1. env \in Envs /\ env.pumpfun \in Seq(Nat) /\ env.raydium \in Seq(Nat)
  BY IngestAssumption DEF Configured
<1>2. /\ config.pumpfun_enabled = (env.pumpfun # <<>>)
      /\ env.pumpfun # <<>> => ValidId(env.pumpfun) /\ config.pumpfun_program = IdOf(env.pumpfun)
      /\ config.raydium_enabled = (env.raydium # <<>>)
      /\ env.raydium # <<>> => ValidId(env.raydium) /\ config.raydium_program = IdOf(env.raydium)
  BY DEF Loaded
<1>3. /\ detector.pumpfun.enabled = config.pumpfun_enabled
      /\ detector.raydium.enabled = config.raydium_enabled
      /\ config.pumpfun_enabled => detector.pumpfun.program_id = config.pumpfun_program
      /\ config.raydium_enabled => detector.raydium.program_id = config.raydium_program
  BY DEF Configured, IsConfig, protocol_detector_init, Pattern
<1>4. /\ detector.pumpfun.enabled = (env.pumpfun # <<>>)
      /\ env.pumpfun # <<>> => ValidId(env.pumpfun) /\ detector.pumpfun.program_id = IdOf(env.pumpfun)
      /\ detector.raydium.enabled = (env.raydium # <<>>)
      /\ env.raydium # <<>> => ValidId(env.raydium) /\ detector.raydium.program_id = IdOf(env.raydium)
  BY <1>2, <1>3
<1>5. Filter(detector.pumpfun, "pumpfun" \in encoded) = TextOf(a)
  <2>1. ("pumpfun" \in encoded) \in BOOLEAN
    OBVIOUS
  <2> QED
    BY <1>1, <1>4, <2>1, FilterIsText, Zenon DEF FilterText
<1>6. Filter(detector.raydium, "raydium" \in encoded) = TextOf(b)
  <2>1. ("raydium" \in encoded) \in BOOLEAN
    OBVIOUS
  <2> QED
    BY <1>1, <1>4, <2>1, FilterIsText, Zenon DEF FilterText
<1>7. account_includes(encoded) = TextOf(a) \o TextOf(b)
  BY <1>5, <1>6, Zenon DEF account_includes
<1> HIDE DEF a, b
<1> DEFINE wanted == {a, b} \ {<<>>}
           s == TextOf(a) \o TextOf(b)
<1>8. (s # <<>> <=> wanted # {}) /\ {s[k] : k \in DOMAIN s} = wanted
  <2>1. CASE a = <<>> /\ b = <<>>
    <3>1. s = <<>>
      BY <2>1 DEF TextOf
    <3> QED
      BY <2>1, <3>1
  <2>2. CASE a # <<>> /\ b = <<>>
    <3>1. s = <<a>> /\ wanted = {a}
      BY <2>2, Tuples DEF TextOf
    <3> HIDE DEF s, wanted
    <3> QED
      BY <3>1, Tuples
  <2>3. CASE a = <<>> /\ b # <<>>
    <3>1. s = <<b>> /\ wanted = {b}
      BY <2>3, Tuples DEF TextOf
    <3> HIDE DEF s, wanted
    <3> QED
      BY <3>1, Tuples
  <2>4. CASE a # <<>> /\ b # <<>>
    <3>1. s = <<a, b>> /\ wanted = {a, b}
      BY <2>4, Tuples DEF TextOf
    <3> HIDE DEF s, wanted
    <3> QED
      BY <3>1, Tuples
  <2> QED
    BY <2>1, <2>2, <2>3, <2>4
<1> QED
  BY <1>7, <1>8, Zenon DEF a, b, Wanted

LEMMA RequestIs ==
  ASSUME Inv, Asked
  PROVE  RequestMatchesConfig
<1> SUFFICES ASSUME pc = "recv" PROVE RequestMatchesConfig
  BY DEF RequestMatchesConfig
<1> DEFINE root == "subscribe_request"
           included == account_includes(encoded)
           set == RequestMembers(encoded)
           value(q) == CASE q = <<"commitment">> -> PROCESSED
                         [] q = <<"from_slot">> -> config.from_slot
                         [] q = <<"transactions", "key">> -> "transactions"
                         [] q = <<"transactions", "value", "account_include">> -> included
                         [] OTHER -> "message"
           struct == [q \in set |-> value(q)]
           commitment == <<"commitment">>
           slot == <<"from_slot">>
           entry == <<"transactions", "value">>
           includes == <<"transactions", "value", "account_include">>
<1>1. Configured /\ Loaded /\ request = Packed(root, struct)
  BY DEF Inv, Asked, Requested, SubscribePayload
<1>2. /\ Leads(root, <<6>>, commitment) /\ Leads(root, <<11>>, slot)
      /\ Leads(root, <<3>>, <<"transactions">>) /\ Leads(root, <<3, 1>>, <<"transactions", "key">>)
      /\ Leads(root, <<3, 2>>, entry) /\ Leads(root, <<3, 2, 3>>, includes)
  BY RequestPaths
<1>3. root \in Names
  BY DEF Names, Descriptors
<1>4. /\ commitment # slot /\ commitment # includes /\ slot # includes
      /\ slot # <<"transactions">> /\ slot # <<"transactions", "key">> /\ slot # entry
      /\ includes # <<"transactions">> /\ includes # <<"transactions", "key">> /\ includes # entry
      /\ slot # commitment
  OBVIOUS
<1>5. struct[commitment] = PROCESSED /\ commitment \in set /\ entry \in set
  BY DEF RequestMembers
<1>6. slot \in set <=> config.from_slot_set
  BY <1>4 DEF RequestMembers
<1>7. slot \in set => struct[slot] = config.from_slot
  BY <1>4
<1>8. includes \in set <=> included # <<>>
  BY <1>4 DEF RequestMembers
<1>9. includes \in set => struct[includes] = included
  BY <1>4
<1>10. DOMAIN struct = set
  OBVIOUS
<1>11. ASSUME NEW q \in set PROVE \E p : Leads(root, p, q)
  <2>1. q \in {commitment, slot, <<"transactions">>, <<"transactions", "key">>, entry, includes}
    BY DEF RequestMembers
  <2> QED
    BY <1>2, <2>1
<1> HIDE DEF struct, root, value, commitment, slot, entry, includes
<1>12. ASSUME NEW path, NEW q, Leads(root, path, q)
       PROVE  /\ path \in DOMAIN request <=> q \in set
              /\ q \in set => request[path] = struct[q]
  BY <1>1, <1>3, <1>10, <1>11, <1>12, PackedAt
<1>13. request[<<6>>] = PROCESSED /\ <<3, 2>> \in DOMAIN request
  BY <1>2, <1>5, <1>12
<1>14. /\ <<11>> \in DOMAIN request <=> config.from_slot_set
       /\ config.from_slot_set => request[<<11>>] = config.from_slot
  BY <1>2, <1>6, <1>7, <1>12
<1>15. /\ <<3, 2, 3>> \in DOMAIN request <=> included # <<>>
       /\ included # <<>> => request[<<3, 2, 3>>] = included
  BY <1>2, <1>8, <1>9, <1>12
<1> DEFINE replay == env.from_slot # Unset /\ ~refused
<1>16. config.from_slot_set = replay /\ (config.from_slot_set => config.from_slot = env.from_slot)
  BY <1>1 DEF Loaded
<1>17. (included # <<>> <=> Wanted # {}) /\ {included[k] : k \in DOMAIN included} = Wanted
  BY <1>1, IncludesAre
<1>18. IF Wanted = {} THEN <<3, 2, 3>> \notin DOMAIN request
       ELSE {request[<<3, 2, 3>>][k] : k \in DOMAIN request[<<3, 2, 3>>]} = Wanted
  BY <1>15, <1>17
<1> HIDE DEF replay
<1>19. (<<11>> \in DOMAIN request <=> replay) /\ (replay => request[<<11>>] = env.from_slot)
  BY <1>14, <1>16
<1> QED
  BY <1>13, <1>18, <1>19, Zenon DEF RequestMatchesConfig, Wanted, FilterText, replay

-----------------------------------------------------------------------------
(* The theorems                                                            *)

(* Types; the capacity of the queue is at least 1024, whatever number the  *)
(* environment gives (yurei_config.c:64-67).                               *)
THEOREM TypeCorrect == Spec => []TypeOK
  BY InvHolds, PTL DEF Inv

(* The handler of an update reads no member through a NULL pointer, nor    *)
(* from a transaction that is not the kind of the update, whatever the     *)
(* server sends (geyser_client.c:150, 165, 210-219, 230, 415).             *)
THEOREM NullSafe == Spec => []NoNullDereference
  BY InvHolds, PTL DEF Inv

(* What handle_transaction, process_pumpfun and process_raydium push is    *)
(* what may be pushed for the update by the field numbers of the .proto    *)
(* files and the layouts of the events, whatever lines it carries, memory  *)
(* to encode the signature or not (geyser_client.c:147-241, 411-418).      *)
THEOREM EventsCorrect == Spec => []EventMatchesReference
  BY InvHolds, PTL DEF Inv

(* No line makes base64_decode leave the buffer of process_pumpfun, and    *)
(* only one of 684 characters with a padding, by one byte, that of         *)
(* process_raydium (base64.c:31, 38, 52; geyser_client.c:152, 183).        *)
THEOREM OverrunBounded == Spec => []OverrunByOne
  BY InvHolds, PTL DEF Inv

(* The server is asked for what the environment names: the program ids     *)
(* there was memory to encode, decoded and encoded again, the commitment   *)
(* although it is zero, and the replay slot of the environment until a     *)
(* status has refused it (geyser_client.c:243-294, yurei_config.c).        *)
THEOREM RequestCorrect == Spec => []RequestMatchesConfig
<1>1. Inv /\ Asked => RequestMatchesConfig
  BY RequestIs
<1> QED
  BY <1>1, InvHolds, AskedHolds, PTL
=============================================================================
