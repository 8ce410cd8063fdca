-------------------------------- MODULE Bits --------------------------------
(***************************************************************************)
(* Fields of machine words (src/util/bit_manipulation.rs).  A word is the  *)
(* set of its bits that are 1; a value is a natural number.                *)
(***************************************************************************)
EXTENDS Integers, FiniteSetsExt

bits(val) == {b \in 0 .. 24 : (val \div 2 ^ b) % 2 = 1}

value(word) == MapThenSumSet(LAMBDA b : 2 ^ b, word)

bit_mask(shift, length) == shift .. shift + length - 1

set_bits(word, shift, length, val) ==
  (word \ bit_mask(shift, length)) \cup ({b + shift : b \in bits(val)} \cap bit_mask(shift, length))

set_bit(word, shift, enable) == set_bits(word, shift, 1, IF enable THEN 1 ELSE 0)

get_bits(word, shift, length) == value({b - shift : b \in word} \cap bit_mask(0, length))

get_bit(word, shift) == get_bits(word, shift, 1) = 1

=============================================================================
