-------------------------- MODULE StorageBindings ---------------------------
(***************************************************************************)
(* src/proto/solana-storage.pb-c.c and google/protobuf/timestamp.pb-c.c:   *)
(* the descriptors of the messages an update contains.                     *)
(***************************************************************************)
EXTENDS Protobuf

confirmed_block__transaction == Message(<<<<1, 0>>, <<0, 2>>>>, <<
  Repeated("signatures", 1, "bytes"), Optional("message", 2, "confirmed_block__message")>>)

confirmed_block__message == Message(<<<<1, 0>>, <<0, 6>>>>, <<
  Optional("header", 1, "confirmed_block__message_header"),
  Repeated("account_keys", 2, "bytes"), Optional("recent_blockhash", 3, "bytes"),
  Repeated("instructions", 4, "confirmed_block__compiled_instruction"),
  Optional("versioned", 5, "bool"),
  Repeated("address_table_lookups", 6, "confirmed_block__message_address_table_lookup")>>)

confirmed_block__message_header == Message(<<<<1, 0>>, <<0, 3>>>>, <<
  Optional("num_required_signatures", 1, "uint32"),
  Optional("num_readonly_signed_accounts", 2, "uint32"),
  Optional("num_readonly_unsigned_accounts", 3, "uint32")>>)

confirmed_block__message_address_table_lookup == Message(<<<<1, 0>>, <<0, 3>>>>, <<
  Optional("account_key", 1, "bytes"), Optional("writable_indexes", 2, "bytes"),
  Optional("readonly_indexes", 3, "bytes")>>)

confirmed_block__transaction_status_meta == Message(<<<<1, 0>>, <<0, 17>>>>, <<
  Optional("err", 1, "confirmed_block__transaction_error"), Optional("fee", 2, "uint64"),
  Repeated("pre_balances", 3, "uint64"), Repeated("post_balances", 4, "uint64"),
  Repeated("inner_instructions", 5, "confirmed_block__inner_instructions"),
  Repeated("log_messages", 6, "string"),
  Repeated("pre_token_balances", 7, "confirmed_block__token_balance"),
  Repeated("post_token_balances", 8, "confirmed_block__token_balance"),
  Repeated("rewards", 9, "confirmed_block__reward"),
  Optional("inner_instructions_none", 10, "bool"),
  Optional("log_messages_none", 11, "bool"),
  Repeated("loaded_writable_addresses", 12, "bytes"),
  Repeated("loaded_readonly_addresses", 13, "bytes"),
  Optional("return_data", 14, "confirmed_block__return_data"),
  Optional("return_data_none", 15, "bool"),
  Optional("compute_units_consumed", 16, "uint64"), Optional("cost_units", 17, "uint64")>>)

confirmed_block__transaction_error == Message(<<<<1, 0>>, <<0, 1>>>>, <<
  Optional("err", 1, "bytes")>>)

confirmed_block__inner_instructions == Message(<<<<1, 0>>, <<0, 2>>>>, <<
  Optional("index", 1, "uint32"),
  Repeated("instructions", 2, "confirmed_block__inner_instruction")>>)

confirmed_block__inner_instruction == Message(<<<<1, 0>>, <<0, 4>>>>, <<
  Optional("program_id_index", 1, "uint32"), Optional("accounts", 2, "bytes"),
  Optional("data", 3, "bytes"), Optional("stack_height", 4, "uint32")>>)

confirmed_block__compiled_instruction == Message(<<<<1, 0>>, <<0, 3>>>>, <<
  Optional("program_id_index", 1, "uint32"), Optional("accounts", 2, "bytes"),
  Optional("data", 3, "bytes")>>)

confirmed_block__token_balance == Message(<<<<1, 0>>, <<0, 5>>>>, <<
  Optional("account_index", 1, "uint32"), Optional("mint", 2, "string"),
  Optional("ui_token_amount", 3, "confirmed_block__ui_token_amount"),
  Optional("owner", 4, "string"), Optional("program_id", 5, "string")>>)

confirmed_block__ui_token_amount == Message(<<<<1, 0>>, <<0, 4>>>>, <<
  Optional("ui_amount", 1, "double"), Optional("decimals", 2, "uint32"),
  Optional("amount", 3, "string"), Optional("ui_amount_string", 4, "string")>>)

confirmed_block__return_data == Message(<<<<1, 0>>, <<0, 2>>>>, <<
  Optional("program_id", 1, "bytes"), Optional("data", 2, "bytes")>>)

confirmed_block__reward == Message(<<<<1, 0>>, <<0, 5>>>>, <<
  Optional("pubkey", 1, "string"), Optional("lamports", 2, "int64"),
  Optional("post_balance", 3, "uint64"), Optional("reward_type", 4, "enum"),
  Optional("commission", 5, "string")>>)

confirmed_block__rewards == Message(<<<<1, 0>>, <<0, 2>>>>, <<
  Repeated("rewards", 1, "confirmed_block__reward"),
  Optional("num_partitions", 2, "confirmed_block__num_partitions")>>)

confirmed_block__unix_timestamp == Message(<<<<1, 0>>, <<0, 1>>>>, <<
  Optional("timestamp", 1, "int64")>>)

confirmed_block__block_height == Message(<<<<1, 0>>, <<0, 1>>>>, <<
  Optional("block_height", 1, "uint64")>>)

confirmed_block__num_partitions == Message(<<<<1, 0>>, <<0, 1>>>>, <<
  Optional("num_partitions", 1, "uint64")>>)

timestamp == Message(<<<<1, 0>>, <<0, 2>>>>, <<
  Plain("seconds", 1, "int64"), Plain("nanos", 2, "int32")>>)

=============================================================================
