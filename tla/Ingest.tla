------------------------------- MODULE Ingest -------------------------------
(***************************************************************************)
(* What the ingest thread makes of the configuration and of an update:     *)
(* yurei_config_load, protocol_detector_init and build_subscribe_payload   *)
(* lead to the request; the receive loop of run_subscription unpacks an    *)
(* update and handle_transaction, process_pumpfun and process_raydium look *)
(* for an event in it.  How the call is kept alive around this is the      *)
(* subject of GeyserClient.                                                *)
(*                                                                         *)
(* An update travels as a sequence of fields [tag, wiretype, body], where  *)
(* a body says what is present at which path of field numbers.  Unpacked,  *)
(* it says what is present at which path of members.  A log line is        *)
(* reduced to whether it has the prefix "Program data: ", the length of    *)
(* the text behind it, how many of its last two characters are paddings,   *)
(* how many of all are none of Base64, and the flag byte a swap would      *)
(* have.                                                                   *)
(***************************************************************************)
EXTENDS Config, Base64, Detector, Parsers, Bindings

CONSTANTS Envs,         \* environments the process may start in
          Updates,      \* updates a server may send
          Signatures,   \* signatures of the transactions in them
          MaxAccounts   \* 256, the length of account_ptrs

-----------------------------------------------------------------------------
(* What may come in                                                        *)

Parent(p) == SubSeq(p, 1, Len(p) - 1)

(* Any text: a padding is a character of Base64, so the two are apart.     *)
Line ==
  {l \in [prefixed : BOOLEAN, len : Nat, padding : 0 .. 2, skipped : Nat, has_target : BOOLEAN] :
     l.padding + l.skipped <= l.len}

(* A field is there only if the message that contains it is.               *)
IsBody(body) ==
  /\ \A p \in DOMAIN body : p \in Seq(Nat) /\ p # <<>> /\ (Len(p) > 1 => Parent(p) \in DOMAIN body)
  /\ <<1, 3, 2, 2>> \in DOMAIN body => body[<<1, 3, 2, 2>>] \in Seq(Seq(0 .. 255))
  /\ <<1, 1>> \in DOMAIN body => body[<<1, 1>>] \in Signatures
  /\ <<1, 4, 6>> \in DOMAIN body => body[<<1, 4, 6>>] \in Seq(Line)

(* A program id is a text, a number one that strtoull returns, or Unset;   *)
(* an update is a sequence of fields, and field numbers start with 1.      *)
ASSUME IngestAssumption ==
  /\ MaxAccounts \in Nat \ {0} /\ Signatures \subseteq Seq(0 .. 255)
  /\ \A e \in Envs : /\ e.pumpfun \in Seq(Nat) /\ e.raydium \in Seq(Nat)
                     /\ e.queue_capacity \in Nat \cup {Unset}
  /\ \A u \in Updates :
       /\ Len(u) \in Nat /\ DOMAIN u = 1 .. Len(u)
       /\ \A k \in DOMAIN u : u[k].tag \in Nat \ {0} /\ IsBody(u[k].body)

-----------------------------------------------------------------------------
VARIABLES pc, env, config, detector,
          request,   \* what the server has been sent
          encoded,   \* history: the programs there was memory to encode for it
          refused,   \* history: a status has refused the replay slot
          wire,      \* the update received
          update,    \* the update unpacked
          proto,     \* the program found in it
          line,      \* loop variable of process_*
          pushed,    \* events pushed for this update
          starved,   \* history: there was no memory to encode its signature
          derefs     \* the structs of it whose members have been read

start == <<env, config, detector, request, encoded, refused>>
handling == <<wire, update, proto, line, pushed, starved, derefs>>
vars == <<pc, start, handling>>

-----------------------------------------------------------------------------
(* The request                                                             *)

PROCESSED == 0

(* The filter of a program, in a buffer of 64 bytes; one that cannot be    *)
(* encoded is left out without a word.                                     *)
Filter(pattern, calloc) ==
  LET text == base58_encode(pattern.program_id, 64, calloc)
  IN IF pattern.enabled /\ text.ret > 0 THEN <<text.out>> ELSE <<>>

(* got: the programs there is memory to encode.                            *)
account_includes(got) ==
  Filter(detector.pumpfun, "pumpfun" \in got) \o Filter(detector.raydium, "raydium" \in got)

(* A slot is sent only when it is not zero.                                *)
RequestMembers_SlotNotZero(got) ==
  {<<"commitment">>, <<"transactions">>, <<"transactions", "key">>, <<"transactions", "value">>}
    \cup (IF config.from_slot > 0 THEN {<<"from_slot">>} ELSE {})
    \cup (IF account_includes(got) # <<>> THEN {<<"transactions", "value", "account_include">>} ELSE {})

(* The members of the request that are set.                                *)
RequestMembers(got) ==
  {<<"commitment">>, <<"transactions">>, <<"transactions", "key">>, <<"transactions", "value">>}
    \cup (IF config.from_slot_set THEN {<<"from_slot">>} ELSE {})
    \cup (IF account_includes(got) # <<>> THEN {<<"transactions", "value", "account_include">>} ELSE {})

(* build_subscribe_payload *)
SubscribePayload(got) ==
  Packed("subscribe_request",
    [q \in RequestMembers(got) |->
       CASE q = <<"commitment">> -> PROCESSED
         [] q = <<"from_slot">> -> config.from_slot
         [] q = <<"transactions", "key">> -> "transactions"
         [] q = <<"transactions", "value", "account_include">> -> account_includes(got)
         [] OTHER -> "message"])

-----------------------------------------------------------------------------
(* The update                                                              *)

NULL == [ok |-> FALSE, update_oneof_case |-> 0, has |-> <<>>]

InOneof(tag) ==
  /\ Lookup(subscribe_update, tag) # NotFound
  /\ FieldOf("subscribe_update", tag).label = "oneof"

(* geyser__subscribe_update__unpack: a field of the wrong wire type fails  *)
(* the whole message; of the members of the oneof the last one stays, and  *)
(* whatever came before it is freed.                                       *)
Unpack(fields) ==
  LET members == {k \in DOMAIN fields : InOneof(fields[k].tag)}
      last == CHOOSE k \in members : \A j \in members : j <= k
  IN CASE \E k \in DOMAIN fields :
            /\ Lookup(subscribe_update, fields[k].tag) # NotFound
            /\ ~Accepts(FieldOf("subscribe_update", fields[k].tag), fields[k].wiretype) -> NULL
       [] members = {} -> [NULL EXCEPT !.ok = TRUE]
       [] OTHER ->
            [ok |-> TRUE, update_oneof_case |-> fields[last].tag,
             has |-> Unpacked(SubMessage("subscribe_update", fields[last].tag), fields[last].body)]

UPDATE_ONEOF_TRANSACTION == 4

(* Members of update->transaction, by the path from it.                    *)
Tx == <<>>
Info == <<"transaction">>
SolTx == <<"transaction", "transaction">>
Msg == <<"transaction", "transaction", "message">>
AccountKeys == <<"transaction", "transaction", "message", "account_keys">>
Meta == <<"transaction", "meta">>
LogMessages == <<"transaction", "meta", "log_messages">>
Signature == <<"transaction", "signature">>
Slot == <<"slot">>

Present(p) ==
  IF p = Tx THEN update.update_oneof_case = UPDATE_ONEOF_TRANSACTION
            ELSE p \in DOMAIN update.has

(* The test of the message left out.                                       *)
Guards_NoMessageTest == <<Tx, Info, SolTx, AccountKeys>>

(* The pointers handle_transaction tests, in its order.                    *)
Guards == <<Tx, Info, SolTx, Msg, AccountKeys>>

(* The guards evaluated: up to the first one that is NULL.                 *)
Tested == {k \in DOMAIN Guards : \A j \in 1 .. k - 1 : Present(Guards[j])}

Passed == \A k \in DOMAIN Guards : Present(Guards[k])

-----------------------------------------------------------------------------
(* The lines                                                               *)

decode_buf == [PUMPFUN |-> 768, RAYDIUM |-> 512]

(* decode_program_data_line succeeds: there is a text, and base64_decode   *)
(* finds its estimate within the buffer.                                   *)
decode_program_data_line(text, buf_len) ==
  /\ text.prefixed /\ text.len > 0
  /\ decoded_size(text.len, text.padding) <= buf_len

(* The bytes base64_decode then writes.                                    *)
BytesWritten(text) == produced_by(text.len - text.skipped)

(* They are more than the buffer has room for.                             *)
Overruns(program, text) ==
  /\ decode_program_data_line(text, decode_buf[program])
  /\ BytesWritten(text) > decode_buf[program]

(* A line that is decoded and parsed by process_pumpfun or process_raydium. *)
Parsed(program, text) ==
  /\ decode_program_data_line(text, decode_buf[program])
  /\ IF program = "PUMPFUN"
     THEN pumpfun_parse_trade(BytesWritten(text))
     ELSE raydium_parse_swap(BytesWritten(text), text.has_target)

YUREI_MAX_SIGNATURE_LEN == 88

(* event.signature: the text, or the empty one when it does not fit or     *)
(* there is no memory.                                                     *)
SignatureText ==
  [calloc \in BOOLEAN |-> [s \in Signatures |->
     IF s = <<>> THEN <<>> ELSE base58_encode(s, YUREI_MAX_SIGNATURE_LEN, calloc).out]]

NewEvent(calloc) ==
  [type |-> proto, line |-> line,
   slot |-> IF Present(Slot) THEN update.has[Slot] ELSE 0,
   signature |-> IF Present(Signature) THEN SignatureText[calloc][update.has[Signature]] ELSE <<>>]

-----------------------------------------------------------------------------
(* The thread                                                              *)

NoConfig == yurei_config_load([pumpfun |-> <<>>, raydium |-> <<>>,
                               from_slot |-> Unset, queue_capacity |-> Unset], TRUE).config
NoDetector == protocol_detector_init(NoProgram, FALSE, NoProgram, FALSE)

Init ==
  /\ pc = "load" /\ env \in Envs
  /\ config = NoConfig /\ detector = NoDetector
  /\ request = <<>> /\ encoded = {} /\ refused = FALSE
  /\ wire = <<>> /\ update = NULL /\ proto = "NONE" /\ line = 1
  /\ pushed = <<>> /\ starved = FALSE /\ derefs = {}

(* yurei_config_load and protocol_detector_init, called by main.           *)
Load ==
  \E calloc \in BOOLEAN :
    LET loaded == yurei_config_load(env, calloc)
        c == loaded.config
    IN /\ pc = "load"
       /\ pc' = IF loaded.ok THEN "subscribe" ELSE "failed"
       /\ config' = IF loaded.ok THEN c ELSE config
       /\ detector' = IF loaded.ok
                      THEN protocol_detector_init(c.pumpfun_program, c.pumpfun_enabled,
                                                  c.raydium_program, c.raydium_enabled)
                      ELSE detector
       /\ UNCHANGED <<env, request, encoded, refused, handling>>

(* The first batch of a call; what can fail on the way is in GeyserClient. *)
Subscribe ==
  /\ pc = "subscribe"
  /\ \E got \in SUBSET {"pumpfun", "raydium"} : request' = SubscribePayload(got) /\ encoded' = got
  /\ pc' = "recv"
  /\ UNCHANGED <<env, config, detector, refused, handling>>

(* The call ends and is made again, without from_slot when its status says *)
(* that the server refuses it; it refuses only what it was asked for.      *)
CallEnds ==
  /\ pc = "recv" /\ pc' = "subscribe"
  /\ \E refusal \in BOOLEAN :
       /\ refusal => <<11>> \in DOMAIN request
       /\ refused' = (refused \/ refusal)
       /\ config' = IF refusal /\ config.from_slot_set
                    THEN [config EXCEPT !.from_slot_set = FALSE, !.from_slot = 0] ELSE config
  /\ UNCHANGED <<env, detector, request, encoded, handling>>

Receive ==
  /\ pc = "recv" /\ pc' = "unpacked"
  /\ wire' \in Updates
  /\ update' = Unpack(wire')
  /\ UNCHANGED <<start, proto, line, pushed, starved, derefs>>

(* Nothing is handled: unpack has failed (continue, there is nothing to    *)
(* free), the update is of another kind, or it lacks what                  *)
(* handle_transaction needs.                                               *)
HandleNothing ==
  /\ pc = "unpacked" /\ pc' = "free"
  /\ IF update.update_oneof_case # UPDATE_ONEOF_TRANSACTION
     THEN UNCHANGED derefs
     ELSE ~Passed /\ derefs' = {Parent(Guards[k]) : k \in {j \in Tested : Guards[j] # Tx}}
  /\ UNCHANGED <<start, wire, update, proto, line, pushed, starved>>

(* handle_transaction, up to the switch.                                   *)
HandleTransaction ==
  LET keys == update.has[AccountKeys]
  IN /\ pc = "unpacked" /\ update.update_oneof_case = UPDATE_ONEOF_TRANSACTION /\ Passed
     /\ derefs' = {Parent(Guards[k]) : k \in {j \in Tested : Guards[j] # Tx}}
                    \cup {Msg, AccountKeys, Info}
     /\ proto' = protocol_detector_match_accounts(detector,
                   SubSeq(keys, 1, IF Len(keys) > MaxAccounts THEN MaxAccounts ELSE Len(keys)))
     /\ pc' = IF proto' = "NONE" THEN "free" ELSE "process"
     /\ UNCHANGED <<start, wire, update, line, pushed, starved>>

(* process_pumpfun and process_raydium: the test of meta, then the loop.   *)
Process ==
  /\ pc = "process"
  /\ derefs' = IF Present(Meta) THEN derefs \cup {Meta} ELSE derefs
  /\ pc' = IF Present(Meta) /\ Present(LogMessages) THEN "scan" ELSE "free"
  /\ UNCHANGED <<start, wire, update, proto, line, pushed, starved>>

(* continue: the line is not decoded, or it does not parse.  A byte that   *)
(* was written behind the buffer may have done no harm.                    *)
SkipLine ==
  /\ pc = "scan" /\ line <= Len(update.has[LogMessages])
  /\ ~Parsed(proto, update.has[LogMessages][line])
  /\ line' = line + 1
  /\ UNCHANGED <<pc, start, wire, update, proto, pushed, starved, derefs>>

(* Or it may have done any: what the program does after that is open.      *)
Overrun ==
  /\ pc = "scan" /\ line <= Len(update.has[LogMessages])
  /\ Overruns(proto, update.has[LogMessages][line])
  /\ pc' = "overrun"
  /\ UNCHANGED <<start, handling>>

(* The first line that parses: the event is dispatched, and return.        *)
Dispatch ==
  /\ pc = "scan" /\ line <= Len(update.has[LogMessages])
  /\ Parsed(proto, update.has[LogMessages][line])
  /\ \E calloc \in BOOLEAN : pushed' = Append(pushed, NewEvent(calloc)) /\ starved' = ~calloc
  /\ derefs' = derefs \cup {Tx, Info}
  /\ pc' = "free"
  /\ UNCHANGED <<start, wire, update, proto, line>>

LinesEnd ==
  /\ pc = "scan" /\ line > Len(update.has[LogMessages])
  /\ pc' = "free"
  /\ UNCHANGED <<start, handling>>

(* geyser__subscribe_update__free_unpacked, and the next turn of the loop. *)
Free ==
  /\ pc = "free" /\ pc' = "recv"
  /\ wire' = <<>> /\ update' = NULL /\ proto' = "NONE" /\ line' = 1
  /\ pushed' = <<>> /\ starved' = FALSE /\ derefs' = {}
  /\ UNCHANGED start

(* main returns EXIT_FAILURE, or nothing more is said of the process.      *)
Over == pc \in {"failed", "overrun"} /\ UNCHANGED vars

Handle ==
  \/ HandleNothing \/ HandleTransaction \/ Process
  \/ SkipLine \/ Overrun \/ Dispatch \/ LinesEnd \/ Free

Next == Load \/ Subscribe \/ CallEnds \/ Receive \/ Handle \/ Over

Spec == Init /\ [][Next]_vars

-----------------------------------------------------------------------------
(* Correctness                                                             *)

(* Types; the capacity is one event_queue_create can work with, whatever   *)
(* the environment says (yurei_config.c:64-67).                            *)
TypeOK ==
  /\ pc \in {"load", "failed", "subscribe", "recv", "unpacked", "process", "scan", "free", "overrun"}
  /\ env \in Envs /\ config.queue_capacity >= 1024
  /\ encoded \subseteq {"pumpfun", "raydium"} /\ refused \in BOOLEAN /\ starved \in BOOLEAN
  /\ \A k \in DOMAIN wire : wire[k].tag \in Nat
  /\ proto \in {"NONE", "PUMPFUN", "RAYDIUM"}
  /\ line \in Nat /\ derefs \subseteq {Tx, Info, SolTx, Msg, AccountKeys, Meta}

(* No member is read through a pointer that is NULL, nor from the          *)
(* transaction of the union when it holds another kind of update           *)
(* (geyser_client.c:150, 165, 210-219, 230, 415).                          *)
NoNullDereference == \A p \in derefs : Present(p)

(* What the server is asked for, by the field numbers of geyser.proto, is  *)
(* what the environment says: the program ids come back from Base58        *)
(* decoding and encoding as they were written, the replay slot is sent,    *)
(* zero included, until a status has refused it and never after that, and  *)
(* the commitment is sent although it is zero.  A filter there was no      *)
(* memory for is missing, and without any the request is for all           *)
(* transactions (geyser_client.c:243-294, yurei_config.c:40-62).           *)
RequestMatchesConfig ==
  (pc = "recv") =>
    LET filter(program, text) == IF program \in encoded THEN text ELSE <<>>
        wanted == {filter("pumpfun", env.pumpfun), filter("raydium", env.raydium)} \ {<<>>}
        include == <<3, 2, 3>>
        replay == env.from_slot # Unset /\ ~refused
    IN /\ request[<<6>>] = PROCESSED
       /\ <<3, 2>> \in DOMAIN request
       /\ IF wanted = {} THEN include \notin DOMAIN request
          ELSE {request[include][k] : k \in DOMAIN request[include]} = wanted
       /\ <<11>> \in DOMAIN request <=> replay
       /\ replay => request[<<11>>] = env.from_slot

Least(S) == CHOOSE x \in S : \A y \in S : x <= y

(* A text stands for a signature: it decodes to it, or it is empty because *)
(* there is no room for 88 characters.                                     *)
Signs(text, signature) ==
  \/ base58_decode(text, Len(signature), TRUE) = [ret |-> Len(signature), out |-> signature]
  \/ text = <<>> /\ Len(Text(signature)) >= 88

(* What may be pushed for the update sent, by the field numbers of the     *)
(* .proto files.  The program is that of the first key, among all of them, *)
(* that is one of the configuration.  Either there is nothing, and the     *)
(* update is no transaction with keys and logs, or has no such key or none *)
(* that is looked at, or no well-formed line that holds a trade and fits   *)
(* 768 bytes; or there is one event, with the slot and the signature of    *)
(* the transaction, from a line that gives all bytes of its layout, and no *)
(* well-formed one came before.  Of Raydium lines none is promised: see    *)
(* RaydiumDispatched.  lack: there was no memory to encode the signature.  *)
MayPush(sent, settings, events, lack) ==
  LET tags == {k \in DOMAIN sent : sent[k].tag \in 2 .. 10}
      last == CHOOSE k \in tags : \A j \in tags : j <= k
      body == sent[last].body
      keys == body[<<1, 3, 2, 2>>]
      lines == body[<<1, 4, 6>>]
      pump(k) == settings.pumpfun_enabled /\ keys[k] = settings.pumpfun_program
      ray(k) == settings.raydium_enabled /\ keys[k] = settings.raydium_program
      hits == {k \in DOMAIN keys : pump(k) \/ ray(k)}
      kind == IF pump(Least(hits)) THEN "PUMPFUN" ELSE "RAYDIUM"
      readable == /\ \A k \in DOMAIN sent : sent[k].wiretype = "length_prefixed" \/ sent[k].tag > 11
                  /\ tags # {} /\ sent[last].tag = 4
                  /\ {<<1, 3, 2, 2>>, <<1, 4, 6>>} \subseteq DOMAIN body
      sound(l) == /\ kind = "PUMPFUN" /\ l.prefixed /\ l.skipped = 0 /\ l.len % 4 = 0
                  /\ (3 * l.len) \div 4 - l.padding \in 250 .. 768
      full(l) == /\ l.prefixed
                 /\ (3 * (l.len - l.skipped)) \div 4
                      >= (IF kind = "PUMPFUN" THEN 250 ELSE IF l.has_target THEN 609 ELSE 577)
  IN \/ /\ events = <<>>
        /\ \/ ~readable \/ hits = {} \/ Least(hits) > MaxAccounts
           \/ \A k \in DOMAIN lines : ~sound(lines[k])
     \/ /\ readable /\ hits # {} /\ events # <<>>
        /\ LET text == events[1].signature
           IN /\ IF <<1, 1>> \notin DOMAIN body \/ body[<<1, 1>>] = <<>> THEN text = <<>>
                 ELSE Signs(text, body[<<1, 1>>]) \/ (lack /\ text = <<>>)
              /\ \E n \in DOMAIN lines :
                   /\ full(lines[n]) /\ \A k \in 1 .. n - 1 : ~sound(lines[k])
                   /\ events = <<[type |-> kind, line |-> n,
                                  slot |-> IF <<2>> \in DOMAIN body THEN body[<<2>>] ELSE 0,
                                  signature |-> text]>>

(* Once an update has been handled, what has been pushed is what may be,   *)
(* whatever fields the update has, lacks, repeats or carries besides       *)
(* (geyser_client.c:147-241, 411-418; base64.c; base58.c:70-107).          *)
EventMatchesReference == pc = "free" => MayPush(wire, config, pushed, starved)

(* A store behind decode_buf is one byte, and happens only to a Raydium    *)
(* line of 684 characters of Base64 that ends with a padding: base64_decode *)
(* takes the padding off the size it compares with the capacity and writes *)
(* its byte all the same (base64.c:31, 38, 52; geyser_client.c:183).  The  *)
(* 768 bytes of process_pumpfun are never left, whatever the line is.      *)
OverrunByOne ==
  pc = "overrun" =>
    LET l == update.has[LogMessages][line]
    IN proto = "RAYDIUM" /\ l.len = 684 /\ l.skipped = 0 /\ l.padding > 0

-----------------------------------------------------------------------------
(* What the documentation says, and the code does not do                   *)

(* README.md:3, "parses PumpFun and Raydium events ... and writes the      *)
(* derived events into PostgreSQL": a Raydium transaction with a line that *)
(* raydium_parse_swap accepts leads to an event.                           *)
RaydiumDispatched ==
  (pc = "free" /\ proto = "RAYDIUM" /\ Present(LogMessages)) =>
    LET lines == update.has[LogMessages]
    IN (\E k \in DOMAIN lines :
          lines[k].prefixed /\ raydium_parse_swap(BytesWritten(lines[k]), lines[k].has_target))
         => pushed # <<>>

(* YUREI_MAX_SIGNATURE_LEN (yurei_event.h:12) is the length of the longest *)
(* signature: the event of a signed transaction carries its signature,     *)
(* when there is the memory to encode it.                                  *)
SignatureKept ==
  \A k \in DOMAIN pushed :
    (Present(Signature) /\ update.has[Signature] # <<>> /\ ~starved) => pushed[k].signature # <<>>
=============================================================================
