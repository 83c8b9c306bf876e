--------------------------- MODULE GeyserBindings ---------------------------
(***************************************************************************)
(* src/proto/geyser.pb-c.c: the descriptors of the messages a subscription *)
(* exchanges, under the names of the generated code.  The other calls of   *)
(* the service are not made by the client and their messages are left out. *)
(***************************************************************************)
EXTENDS Protobuf

subscribe_request__accounts_entry == Message(<<<<1, 0>>, <<0, 2>>>>, <<
  Optional("key", 1, "string"),
  Optional("value", 2, "subscribe_request_filter_accounts")>>)

subscribe_request__slots_entry == Message(<<<<1, 0>>, <<0, 2>>>>, <<
  Optional("key", 1, "string"), Optional("value", 2, "subscribe_request_filter_slots")>>)

subscribe_request__transactions_entry == Message(<<<<1, 0>>, <<0, 2>>>>, <<
  Optional("key", 1, "string"),
  Optional("value", 2, "subscribe_request_filter_transactions")>>)

subscribe_request__transactions_status_entry == Message(<<<<1, 0>>, <<0, 2>>>>, <<
  Optional("key", 1, "string"),
  Optional("value", 2, "subscribe_request_filter_transactions")>>)

subscribe_request__blocks_entry == Message(<<<<1, 0>>, <<0, 2>>>>, <<
  Optional("key", 1, "string"), Optional("value", 2, "subscribe_request_filter_blocks")>>)

subscribe_request__blocks_meta_entry == Message(<<<<1, 0>>, <<0, 2>>>>, <<
  Optional("key", 1, "string"),
  Optional("value", 2, "subscribe_request_filter_blocks_meta")>>)

subscribe_request__entry_entry == Message(<<<<1, 0>>, <<0, 2>>>>, <<
  Optional("key", 1, "string"), Optional("value", 2, "subscribe_request_filter_entry")>>)

subscribe_request == Message(<<<<1, 0>>, <<0, 11>>>>, <<
  Repeated("accounts", 1, "subscribe_request__accounts_entry"),
  Repeated("slots", 2, "subscribe_request__slots_entry"),
  Repeated("transactions", 3, "subscribe_request__transactions_entry"),
  Repeated("blocks", 4, "subscribe_request__blocks_entry"),
  Repeated("blocks_meta", 5, "subscribe_request__blocks_meta_entry"),
  Optional("commitment", 6, "enum"),
  Repeated("accounts_data_slice", 7, "subscribe_request_accounts_data_slice"),
  Repeated("entry", 8, "subscribe_request__entry_entry"),
  Optional("ping", 9, "subscribe_request_ping"),
  Repeated("transactions_status", 10, "subscribe_request__transactions_status_entry"),
  Optional("from_slot", 11, "uint64")>>)

(* The range of a message whose numbers start at two, entered as if they   *)
(* started at one.                                                         *)
subscribe_request_filter_accounts_FromOne == Message(<<<<1, 0>>, <<0, 4>>>>, <<
  Repeated("account", 2, "string"), Repeated("owner", 3, "string"),
  Repeated("filters", 4, "subscribe_request_filter_accounts_filter"),
  Optional("nonempty_txn_signature", 5, "bool")>>)

subscribe_request_filter_accounts == Message(<<<<2, 0>>, <<0, 4>>>>, <<
  Repeated("account", 2, "string"), Repeated("owner", 3, "string"),
  Repeated("filters", 4, "subscribe_request_filter_accounts_filter"),
  Optional("nonempty_txn_signature", 5, "bool")>>)

subscribe_request_filter_accounts_filter == Message(<<<<1, 0>>, <<0, 4>>>>, <<
  Oneof("memcmp", 1, "subscribe_request_filter_accounts_filter_memcmp"),
  Oneof("datasize", 2, "uint64"), Oneof("token_account_state", 3, "bool"),
  Oneof("lamports", 4, "subscribe_request_filter_accounts_filter_lamports")>>)

subscribe_request_filter_accounts_filter_memcmp == Message(<<<<1, 0>>, <<0, 4>>>>, <<
  Optional("offset", 1, "uint64"), Oneof("bytes", 2, "bytes"),
  Oneof("base58", 3, "string"), Oneof("base64", 4, "string")>>)

subscribe_request_filter_accounts_filter_lamports == Message(<<<<1, 0>>, <<0, 4>>>>, <<
  Oneof("eq", 1, "uint64"), Oneof("ne", 2, "uint64"), Oneof("lt", 3, "uint64"),
  Oneof("gt", 4, "uint64")>>)

subscribe_request_filter_slots == Message(<<<<1, 0>>, <<0, 2>>>>, <<
  Optional("filter_by_commitment", 1, "bool"), Optional("interslot_updates", 2, "bool")>>)

subscribe_request_filter_transactions == Message(<<<<1, 0>>, <<0, 6>>>>, <<
  Optional("vote", 1, "bool"), Optional("failed", 2, "bool"),
  Repeated("account_include", 3, "string"), Repeated("account_exclude", 4, "string"),
  Optional("signature", 5, "string"), Repeated("account_required", 6, "string")>>)

subscribe_request_filter_blocks == Message(<<<<1, 0>>, <<0, 4>>>>, <<
  Repeated("account_include", 1, "string"), Optional("include_transactions", 2, "bool"),
  Optional("include_accounts", 3, "bool"), Optional("include_entries", 4, "bool")>>)

subscribe_request_filter_blocks_meta == Message(<<>>, <<>>)

subscribe_request_filter_entry == Message(<<>>, <<>>)

subscribe_request_accounts_data_slice == Message(<<<<1, 0>>, <<0, 2>>>>, <<
  Optional("offset", 1, "uint64"), Optional("length", 2, "uint64")>>)

subscribe_request_ping == Message(<<<<1, 0>>, <<0, 1>>>>, <<
  Optional("id", 1, "int32")>>)

subscribe_update == Message(<<<<1, 0>>, <<0, 11>>>>, <<
  Repeated("filters", 1, "string"), Oneof("account", 2, "subscribe_update_account"),
  Oneof("slot", 3, "subscribe_update_slot"),
  Oneof("transaction", 4, "subscribe_update_transaction"),
  Oneof("block", 5, "subscribe_update_block"), Oneof("ping", 6, "subscribe_update_ping"),
  Oneof("block_meta", 7, "subscribe_update_block_meta"),
  Oneof("entry", 8, "subscribe_update_entry"), Oneof("pong", 9, "subscribe_update_pong"),
  Oneof("transaction_status", 10, "subscribe_update_transaction_status"),
  Optional("created_at", 11, "timestamp")>>)

subscribe_update_account == Message(<<<<1, 0>>, <<0, 3>>>>, <<
  Optional("account", 1, "subscribe_update_account_info"), Optional("slot", 2, "uint64"),
  Optional("is_startup", 3, "bool")>>)

subscribe_update_account_info == Message(<<<<1, 0>>, <<0, 8>>>>, <<
  Optional("pubkey", 1, "bytes"), Optional("lamports", 2, "uint64"),
  Optional("owner", 3, "bytes"), Optional("executable", 4, "bool"),
  Optional("rent_epoch", 5, "uint64"), Optional("data", 6, "bytes"),
  Optional("write_version", 7, "uint64"), Optional("txn_signature", 8, "bytes")>>)

subscribe_update_slot == Message(<<<<1, 0>>, <<0, 4>>>>, <<
  Optional("slot", 1, "uint64"), Optional("parent", 2, "uint64"),
  Optional("status", 3, "enum"), Optional("dead_error", 4, "string")>>)

subscribe_update_transaction == Message(<<<<1, 0>>, <<0, 2>>>>, <<
  Optional("transaction", 1, "subscribe_update_transaction_info"),
  Optional("slot", 2, "uint64")>>)

subscribe_update_transaction_info == Message(<<<<1, 0>>, <<0, 5>>>>, <<
  Optional("signature", 1, "bytes"), Optional("is_vote", 2, "bool"),
  Optional("transaction", 3, "confirmed_block__transaction"),
  Optional("meta", 4, "confirmed_block__transaction_status_meta"),
  Optional("index", 5, "uint64")>>)

subscribe_update_transaction_status == Message(<<<<1, 0>>, <<0, 5>>>>, <<
  Optional("slot", 1, "uint64"), Optional("signature", 2, "bytes"),
  Optional("is_vote", 3, "bool"), Optional("index", 4, "uint64"),
  Optional("err", 5, "confirmed_block__transaction_error")>>)

subscribe_update_block == Message(<<<<1, 0>>, <<0, 13>>>>, <<
  Optional("slot", 1, "uint64"), Optional("blockhash", 2, "string"),
  Optional("rewards", 3, "confirmed_block__rewards"),
  Optional("block_time", 4, "confirmed_block__unix_timestamp"),
  Optional("block_height", 5, "confirmed_block__block_height"),
  Repeated("transactions", 6, "subscribe_update_transaction_info"),
  Optional("parent_slot", 7, "uint64"), Optional("parent_blockhash", 8, "string"),
  Optional("executed_transaction_count", 9, "uint64"),
  Optional("updated_account_count", 10, "uint64"),
  Repeated("accounts", 11, "subscribe_update_account_info"),
  Optional("entries_count", 12, "uint64"),
  Repeated("entries", 13, "subscribe_update_entry")>>)

subscribe_update_block_meta == Message(<<<<1, 0>>, <<0, 9>>>>, <<
  Optional("slot", 1, "uint64"), Optional("blockhash", 2, "string"),
  Optional("rewards", 3, "confirmed_block__rewards"),
  Optional("block_time", 4, "confirmed_block__unix_timestamp"),
  Optional("block_height", 5, "confirmed_block__block_height"),
  Optional("parent_slot", 6, "uint64"), Optional("parent_blockhash", 7, "string"),
  Optional("executed_transaction_count", 8, "uint64"),
  Optional("entries_count", 9, "uint64")>>)

subscribe_update_entry == Message(<<<<1, 0>>, <<0, 6>>>>, <<
  Optional("slot", 1, "uint64"), Optional("index", 2, "uint64"),
  Optional("num_hashes", 3, "uint64"), Optional("hash", 4, "bytes"),
  Optional("executed_transaction_count", 5, "uint64"),
  Optional("starting_transaction_index", 6, "uint64")>>)

subscribe_update_ping == Message(<<>>, <<>>)

subscribe_update_pong == Message(<<<<1, 0>>, <<0, 1>>>>, <<
  Optional("id", 1, "int32")>>)

=============================================================================
