------------------------------- MODULE Parsers -------------------------------
(***************************************************************************)
(* src/pumpfun_parser.c and src/raydium_parser.c.  Both overlay a layout   *)
(* of fixed offsets on decoded bytes and check nothing but the length, so  *)
(* the bytes are reduced to how many there are and, for a swap, to the one *)
(* byte that decides how the rest is laid out.  What a parser extracts is  *)
(* identified with the line it was extracted from.                         *)
(***************************************************************************)
EXTENDS Integers, Sequences

(* sizeof(pumpfun_trade_layout_t): four keys, fifteen 64-bit numbers and   *)
(* two flags, packed (_Static_assert on line 37).                          *)
TradeLayout == 4 * 32 + 15 * 8 + 2

pumpfun_parse_trade(len) == len >= TradeLayout

-----------------------------------------------------------------------------
(* A layout is the reads of raydium_parse_swap in order: how many bytes    *)
(* (read_u64, read_pubkey or the flag byte), and whether a read that fails *)
(* makes the parser fail.                                                  *)
Checked(width) == [width |-> width, checked |-> TRUE]
Ignored(width) == [width |-> width, checked |-> FALSE]
Times(n, x) == [k \in 1 .. n |-> x]

(* Four amounts; token_program, amm, amm_authority, amm_open_orders; the   *)
(* flag; the target if there is one; the keys of the pool and the market;  *)
(* user_owner.                                                             *)
SwapLayout(has_target) ==
  Times(4, Checked(8)) \o <<Ignored(32), Checked(32), Ignored(32), Ignored(32), Checked(1)>>
    \o (IF has_target THEN <<Checked(32)>> ELSE <<>>)
    \o Times(12, Ignored(32)) \o <<Checked(32)>>

(* A read that ends with the last byte is refused.                         *)
Fits_OffByOne(offset, width, len) == offset + width < len

Fits(offset, width, len) == offset + width <= len

(* Where the parser stands, and whether it is still reading.               *)
ParserState == [ok : BOOLEAN, offset : Nat]

(* What a read makes of that.  When it does not fit, the offset stays where *)
(* it is, and the parser returns if the read is a checked one.             *)
Read(read, len) ==
  [s \in ParserState |->
     CASE ~s.ok -> s
       [] s.ok /\ Fits(s.offset, read.width, len) -> [s EXCEPT !.offset = @ + read.width]
       [] OTHER -> [s EXCEPT !.ok = ~read.checked]]

ReadAll(layout, len) ==
  LET state[k \in 0 .. Len(layout)] ==
        IF k = 0 THEN [ok |-> TRUE, offset |-> 0] ELSE Read(layout[k], len)[state[k - 1]]
  IN state[Len(layout)].ok

raydium_parse_swap(len, has_target) == ReadAll(SwapLayout(has_target), len)
=============================================================================
