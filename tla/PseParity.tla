------------------------------ MODULE PseParity ------------------------------
(***************************************************************************)
(* The parity that guards a snapshot (pse_parity_unit.sv) and the block    *)
(* size it is laid out with (optimal_block_size): the bits of an entry are *)
(* put in rows of one block, and one parity bit is kept per row and per    *)
(* column.  With the PMP registers of this core an entry has 640 bits, in  *)
(* 25 rows of 26 columns of which the last row is not full.                *)
(*                                                                         *)
(* A word is the set of its bits that are one.  The last row is taken not  *)
(* to be full: if it is, the code drives it twice.                         *)
(***************************************************************************)
EXTENDS Integers, FiniteSets

CONSTANTS
  Widths,      (* bits of an entry, without parity *)
  RowBits,     (* 4: the width of csrs_rows, which a row is assigned to *)
  TopMask,     (* 15: optimal_block_size starts with the mask 1 << 30 *)
  MaxFlips     (* for each width, faults in a behaviour *)

ASSUME PseParityAssumption ==
  /\ Widths \subseteq Nat \ {0} /\ RowBits \in Nat \ {0}
  /\ TopMask \in Nat /\ \A w \in Widths : w \div 4 < 2^(2 * TopMask)
  /\ MaxFlips \in [Widths -> Nat]

VARIABLES
  width, BLOCK_SIZE,   (* of the entry and of a row: fixed at elaboration *)
  csrs,     (* the word that was saved with its parity *)
  flips     (* the bits in which the PMP CSRs now differ from it *)
vars == <<width, BLOCK_SIZE, csrs, flips>>

-----------------------------------------------------------------------------
(* optimal_block_size: the square root, digit by digit from the top mask   *)
(* down, and then rounded up.                                              *)

Mask(e) == 2^(2 * e)

RootDigit_Wrong(s, mask) ==       \* the remainder keeps the root so far
  IF s.rem >= s.res + mask
    THEN [rem |-> s.rem - mask, res |-> s.res \div 2 + mask]
    ELSE [rem |-> s.rem, res |-> s.res \div 2]
RootDigit(s, mask) ==
  IF s.rem >= s.res + mask
    THEN [rem |-> s.rem - (s.res + mask), res |-> s.res \div 2 + mask]
    ELSE [rem |-> s.rem, res |-> s.res \div 2]

FloorRoot(n) ==
  LET root[e \in 0 .. TopMask + 1] ==
        IF e > TopMask \/ Mask(e) > n THEN [rem |-> n, res |-> 0]
                                      ELSE RootDigit(root[e + 1], Mask(e))
  IN root[0].res

optimal_block_size(n) ==
  LET res == FloorRoot(n) IN IF res * res < n THEN res + 1 ELSE res

-----------------------------------------------------------------------------
(* pse_parity_unit.                                                        *)

N_FULL_BLOCKS == width \div BLOCK_SIZE
LAST_ROW_WIDTH == width % BLOCK_SIZE
N_ROWS == IF LAST_ROW_WIDTH = 0 THEN N_FULL_BLOCKS ELSE N_FULL_BLOCKS + 1

Row(b) == b \div BLOCK_SIZE
Column(b) == b % BLOCK_SIZE
Odd(S) == Cardinality(S) % 2 = 1

\* A full row is assigned to four bits before it is folded: only its lowest
\* columns count.  The last row, if it is not full, counts with all its bits.
InRowParity_Wrong(b) == Row(b) < N_FULL_BLOCKS
InRowParity_Narrow_Wrong(b) == Row(b) < N_FULL_BLOCKS => Column(b) < RowBits - 1
InRowParity(b) == Row(b) < N_FULL_BLOCKS => Column(b) < RowBits

\* A column counts with all its rows, but from column N_FULL_BLOCKS on only
\* with the last but one.
InColumnParity_Wrong(b) == Column(b) < N_FULL_BLOCKS
InColumnParity(b) == Column(b) >= N_FULL_BLOCKS => Row(b) = N_ROWS - 2

Parity(word) ==
  LET inRow == {b \in word : InRowParity(b)}
      inColumn == {b \in word : InColumnParity(b)}
  IN [rows |-> {r \in 0 .. N_ROWS - 1 : Odd({b \in inRow : Row(b) = r})},
      columns |-> {c \in 0 .. BLOCK_SIZE - 1 : Odd({b \in inColumn : Column(b) = c})}]

EntryBits == 0 .. width - 1
live == (csrs \ flips) \cup (flips \ csrs)
parity_invalid_o == Parity(csrs) # Parity(live)

-----------------------------------------------------------------------------
Init ==
  /\ width \in Widths /\ BLOCK_SIZE = optimal_block_size(width)
  /\ csrs \in {{}, EntryBits, {b \in EntryBits : b % 3 = 0}}
  /\ flips = {}

Flip ==
  /\ Cardinality(flips) < MaxFlips[width]
  /\ \E b \in EntryBits \ flips : flips' = flips \cup {b}
  /\ UNCHANGED <<width, BLOCK_SIZE, csrs>>

Next == Flip

Spec == Init /\ [][Next]_vars

-----------------------------------------------------------------------------
\* The block is the smallest square that holds the entry: with it the number
\* of parity bits is least.
BlockSizeIsOptimal ==
  /\ width <= BLOCK_SIZE * BLOCK_SIZE
  /\ (BLOCK_SIZE - 1) * (BLOCK_SIZE - 1) < width

\* One flipped bit goes unnoticed exactly in the columns from N_FULL_BLOCKS
\* on, outside the row they are taken from.
BlindColumns ==
  Cardinality(flips) = 1 =>
    \A b \in flips : ~parity_invalid_o <=>
      /\ Column(b) >= N_FULL_BLOCKS /\ Row(b) # N_ROWS - 2
      /\ Column(b) >= RowBits /\ Row(b) < N_FULL_BLOCKS

\* Where rows and columns are both counted the code keeps its distance: up to
\* three flips, wherever they are, do not cancel out.
CoveredBlockNoticed ==
  flips # {} /\ (\A b \in flips : Column(b) < RowBits /\ Column(b) < N_FULL_BLOCKS)
    => parity_invalid_o

\* "Hamming distance = COLUMN_PARITY_BITS * 2": no single flip goes unnoticed.
SingleFlipNoticed == Cardinality(flips) = 1 => parity_invalid_o
==============================================================================
