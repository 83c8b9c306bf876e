------------------------------ MODULE Bindings ------------------------------
(***************************************************************************)
(* The descriptors together, by name, and the walk a parser makes through  *)
(* them: which message, and which field of the C structs, a path of field  *)
(* numbers leads to.                                                       *)
(***************************************************************************)
EXTENDS GeyserBindings, StorageBindings

Descriptors == [
  subscribe_request__accounts_entry |-> subscribe_request__accounts_entry,
  subscribe_request__slots_entry |-> subscribe_request__slots_entry,
  subscribe_request__transactions_entry |-> subscribe_request__transactions_entry,
  subscribe_request__transactions_status_entry |-> subscribe_request__transactions_status_entry,
  subscribe_request__blocks_entry |-> subscribe_request__blocks_entry,
  subscribe_request__blocks_meta_entry |-> subscribe_request__blocks_meta_entry,
  subscribe_request__entry_entry |-> subscribe_request__entry_entry,
  subscribe_request |-> subscribe_request,
  subscribe_request_filter_accounts |-> subscribe_request_filter_accounts,
  subscribe_request_filter_accounts_filter |-> subscribe_request_filter_accounts_filter,
  subscribe_request_filter_accounts_filter_memcmp |-> subscribe_request_filter_accounts_filter_memcmp,
  subscribe_request_filter_accounts_filter_lamports |-> subscribe_request_filter_accounts_filter_lamports,
  subscribe_request_filter_slots |-> subscribe_request_filter_slots,
  subscribe_request_filter_transactions |-> subscribe_request_filter_transactions,
  subscribe_request_filter_blocks |-> subscribe_request_filter_blocks,
  subscribe_request_filter_blocks_meta |-> subscribe_request_filter_blocks_meta,
  subscribe_request_filter_entry |-> subscribe_request_filter_entry,
  subscribe_request_accounts_data_slice |-> subscribe_request_accounts_data_slice,
  subscribe_request_ping |-> subscribe_request_ping, subscribe_update |-> subscribe_update,
  subscribe_update_account |-> subscribe_update_account,
  subscribe_update_account_info |-> subscribe_update_account_info,
  subscribe_update_slot |-> subscribe_update_slot,
  subscribe_update_transaction |-> subscribe_update_transaction,
  subscribe_update_transaction_info |-> subscribe_update_transaction_info,
  subscribe_update_transaction_status |-> subscribe_update_transaction_status,
  subscribe_update_block |-> subscribe_update_block,
  subscribe_update_block_meta |-> subscribe_update_block_meta,
  subscribe_update_entry |-> subscribe_update_entry,
  subscribe_update_ping |-> subscribe_update_ping,
  subscribe_update_pong |-> subscribe_update_pong,
  confirmed_block__transaction |-> confirmed_block__transaction,
  confirmed_block__message |-> confirmed_block__message,
  confirmed_block__message_header |-> confirmed_block__message_header,
  confirmed_block__message_address_table_lookup |-> confirmed_block__message_address_table_lookup,
  confirmed_block__transaction_status_meta |-> confirmed_block__transaction_status_meta,
  confirmed_block__transaction_error |-> confirmed_block__transaction_error,
  confirmed_block__inner_instructions |-> confirmed_block__inner_instructions,
  confirmed_block__inner_instruction |-> confirmed_block__inner_instruction,
  confirmed_block__compiled_instruction |-> confirmed_block__compiled_instruction,
  confirmed_block__token_balance |-> confirmed_block__token_balance,
  confirmed_block__ui_token_amount |-> confirmed_block__ui_token_amount,
  confirmed_block__return_data |-> confirmed_block__return_data,
  confirmed_block__reward |-> confirmed_block__reward,
  confirmed_block__rewards |-> confirmed_block__rewards,
  confirmed_block__unix_timestamp |-> confirmed_block__unix_timestamp,
  confirmed_block__block_height |-> confirmed_block__block_height,
  confirmed_block__num_partitions |-> confirmed_block__num_partitions,
  timestamp |-> timestamp]

NoMessage == "none"

FieldOf(name, number) ==
  LET m == Descriptors[name] IN m.fields[Lookup(m, number)]

(* The message a field holds, if the number is known and it holds one.     *)
SubMessage(name, number) ==
  IF /\ name # NoMessage
     /\ Lookup(Descriptors[name], number) # NotFound
     /\ FieldOf(name, number).type \notin Scalars
  THEN FieldOf(name, number).type
  ELSE NoMessage

(* The message reached from the message root along a path of numbers.      *)
MessageAt(root, path) ==
  LET at[k \in 0 .. Len(path)] == IF k = 0 THEN root ELSE SubMessage(at[k - 1], path[k])
  IN at[Len(path)]

(* Numbers the descriptors do not know are skipped with all they contain.  *)
Known(root, path) ==
  LET parent == MessageAt(root, SubSeq(path, 1, Len(path) - 1))
  IN parent # NoMessage /\ Lookup(Descriptors[parent], path[Len(path)]) # NotFound

(* The members of the C structs along a path of numbers.                   *)
Members(root, path) ==
  [k \in 1 .. Len(path) |-> FieldOf(MessageAt(root, SubSeq(path, 1, k - 1)), path[k]).name]

(* protobuf_c_message_unpack: a body, given as what is present at which    *)
(* path of numbers, becomes the structs, given as what is present at which *)
(* path of members.  A member that is not there is NULL, or has has_ unset. *)
Unpacked(root, body) ==
  LET known == {p \in DOMAIN body : Known(root, p)}
  IN [q \in {Members(root, p) : p \in known} |->
        body[CHOOSE p \in known : Members(root, p) = q]]

(* protobuf_c_message_pack: the way back, by the number of each member.    *)
NumberOf(name, member) ==
  LET fields == Descriptors[name].fields
  IN fields[CHOOSE i \in DOMAIN fields : fields[i].name = member].number

Numbers(root, q) ==
  LET at[k \in 0 .. Len(q)] ==
        IF k = 0 THEN [message |-> root, path |-> <<>>]
        ELSE LET n == NumberOf(at[k - 1].message, q[k])
             IN [message |-> SubMessage(at[k - 1].message, n), path |-> Append(at[k - 1].path, n)]
  IN at[Len(q)].path

Packed(root, struct) ==
  [p \in {Numbers(root, q) : q \in DOMAIN struct} |->
     struct[CHOOSE q \in DOMAIN struct : Numbers(root, q) = p]]
=============================================================================
