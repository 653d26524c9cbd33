-------------------------------- MODULE Lanes --------------------------------
(***************************************************************************)
(* One vector kernel compiled for several instruction sets.  The register  *)
(* classes of util/v4, v8 and v16 exist once in plain C++ and again for    *)
(* SSE, AVX, AVX2, AVX-512 and NEON, and the build picks one by macro: a   *)
(* kernel is right only if every class does the same.  Here the classes of *)
(* one width that one machine can be built with start from the same        *)
(* registers and memory and run the same operations, chosen one at a time. *)
(***************************************************************************)
EXTENDS LaneWords

CONSTANTS
  Widths,        \* the numbers of lanes looked at
  Seeds,         \* the data the registers and the memory begin with
  RowStride(_),  \* words from one row of a transposed access to the next, by width
  RowOffset,     \* where the first row begins
  Depth(_),      \* operations in a row, by width (bound)
  Register(_, _, _), Stored(_, _)  \* a seed's words: of a register's lane, of an address

ASSUME LanesAssumption ==
  /\ Widths \subseteq {4, 8, 16}
  /\ RowOffset \in Nat
  /\ \A w \in Widths : RowStride(w) \in Nat /\ Depth(w) \in Nat
  /\ 4 \in Widths => RowStride(4) = 8   \* NEON has accesses of 8 columns

V4p == INSTANCE V4Portable
V4s == INSTANCE V4Sse
V4a == INSTANCE V4Avx
V4f == INSTANCE V4Avx2
V4n == INSTANCE V4Neon
V8p == INSTANCE V8Portable
V8a == INSTANCE V8Avx
V8f == INSTANCE V8Avx2
V16p == INSTANCE V16Portable
V16a == INSTANCE V16Avx512

(* util/v4/v4.h, v8/v8.h, v16/v16.h: the implementations of a width, by    *)
(* the machines they are for.                                              *)
Classes(w) ==
  CASE w = 4 -> {{"v4_portable", "v4_sse", "v4_avx", "v4_avx2"}, {"v4_portable", "v4_neon"}}
    [] w = 8 -> {{"v8_portable", "v8_avx", "v8_avx2"}}
    [] w = 16 -> {{"v16_portable", "v16_avx512"}}
Portable(w) ==
  CASE w = 4 -> "v4_portable" [] w = 8 -> "v8_portable" [] w = 16 -> "v16_portable"

VARIABLES
  width,    \* lanes of a register
  machine,  \* by class: its registers .r and memory .m
  count     \* operations so far

vars == <<width, machine, count>>

(* The columns of the transposed accesses of a width.                      *)
Columned(w) ==
  CASE w = 4 -> {"x1", "x2", "x3", "x4"}
    [] w = 8 -> {"x1", "x2", "x3", "x4", "x8"}
    [] w = 16 -> {"x1", "x2", "x3", "x4", "x8", "x16", "x8_p", "x16_p"}
Rows == [j \in 0 .. width - 1 |-> RowOffset + RowStride(width) * j]

(* What each operation is tried with.                                      *)
Arithmetic == {"+", "-", "*", "/", "%", "<<", ">>", "^", "&", "|"}
Tests == {"<", ">", "==", "!=", "<=", ">=", "&&", "||"}
Inputs ==
  [any |-> {0}, all |-> {0}, splat |-> 0 .. width - 1, shuffle |-> 0 .. width - 1,
   swap |-> {0}, transpose |-> {0},
   int_scalars |-> {0}, int_assign |-> Arithmetic, int_binary |-> Arithmetic,
   int_prefix |-> {"+", "-", "~"}, int_not |-> {0}, int_prefix_incdec |-> {"++", "--"},
   int_postfix_incdec |-> {"++", "--"}, int_logical |-> Tests, abs |-> {0},
   czero |-> {0}, notczero |-> {0}, merge |-> {0},
   float_scalar |-> {0}, float_scalars |-> {0}, float_assign |-> {"+", "-", "*", "/"},
   float_plus |-> {0}, float_minus |-> {0}, float_not |-> {0},
   float_prefix_inc |-> {0}, float_prefix_dec |-> {0},
   float_postfix_inc |-> {0}, float_postfix_dec |-> {0},
   float_binary |-> {"+", "-", "*", "/"}, float_logical |-> Tests,
   cmath_fr1 |-> {"fabs", "sqrt", "sin"}, cmath_fr2 |-> {0}, copysign |-> {0},
   rsqrt_approx |-> {0}, rsqrt |-> {0}, rcp_approx |-> {0}, rcp |-> {0},
   fma |-> {0}, fms |-> {0}, fnms |-> {0},
   clear_bits |-> {0}, set_bits |-> {0}, toggle_bits |-> {0}]
Moves == {"any", "all", "splat", "shuffle", "swap", "transpose"}
OnInts ==
  {"int_scalars", "int_assign", "int_binary", "int_prefix", "int_not", "int_prefix_incdec",
   "int_postfix_incdec", "int_logical", "abs", "czero", "notczero", "merge"}
OnFloats == DOMAIN Inputs \ (Moves \cup OnInts)
OnMasks == {"clear_bits", "set_bits", "toggle_bits"}   \* their mask is any word
OnMemory ==
  {"load", "store", "stream", "clear", "copy", "swap_mem", "increment", "decrement",
   "scale"}

----------------------------------------------------------------------------
Perform(i, f, k, s) ==
  CASE i = "v4_portable" -> V4p!On!Perform(f, k, Rows, s)
    [] i = "v4_sse" -> V4s!On!Perform(f, k, Rows, s)
    [] i = "v4_avx" -> V4a!On!Perform(f, k, Rows, s)
    [] i = "v4_avx2" -> V4f!On!Perform(f, k, Rows, s)
    [] i = "v4_neon" -> V4n!On!Perform(f, k, Rows, s)
    [] i = "v8_portable" -> V8p!On!Perform(f, k, Rows, s)
    [] i = "v8_avx" -> V8a!On!Perform(f, k, Rows, s)
    [] i = "v8_avx2" -> V8f!On!Perform(f, k, Rows, s)
    [] i = "v16_portable" -> V16p!On!Perform(f, k, Rows, s)
    [] i = "v16_avx512" -> V16a!On!Perform(f, k, Rows, s)
Undone(i, cols, s) ==
  CASE i = "v4_portable" -> V4p!On!Undone(cols, Rows, s)
    [] i = "v4_sse" -> V4s!On!Undone(cols, Rows, s)
    [] i = "v4_avx" -> V4a!On!Undone(cols, Rows, s)
    [] i = "v4_avx2" -> V4f!On!Undone(cols, Rows, s)
    [] i = "v4_neon" -> V4n!On!Undone(cols, Rows, s)
    [] i = "v8_portable" -> V8p!On!Undone(cols, Rows, s)
    [] i = "v8_avx" -> V8a!On!Undone(cols, Rows, s)
    [] i = "v8_avx2" -> V8f!On!Undone(cols, Rows, s)
    [] i = "v16_portable" -> V16p!On!Undone(cols, Rows, s)
    [] i = "v16_avx512" -> V16a!On!Undone(cols, Rows, s)
Weights(i, wl) ==
  CASE i = "v4_portable" -> V4p!trilinear(wl)
    [] i = "v4_sse" -> V4s!trilinear(wl)
    [] i = "v4_avx" -> V4a!trilinear(wl)
    [] i = "v4_avx2" -> V4f!trilinear(wl)
    [] i = "v4_neon" -> V4n!trilinear(wl)

(* What the program may ask: no division by zero, no shift past the word,  *)
(* and arithmetic on numbers only.  The classes differ at -0 (! and unary  *)
(* minus, and copysign's second operand), which is left out; and NEON's    *)
(* clear_bits clears the bits of the mask that the number has.             *)
Defined(f, k, r) ==
  LET All(P(_, _)) == \A j \in 0 .. width - 1 : P(r[1][j], r[2][j])
  IN /\ f \in {"int_assign", "int_binary"} /\ k \in {"/", "%"} =>
          All(LAMBDA a, b : b # 0 /\ ~(a = SignBit /\ b = AllOnes))
     /\ f \in {"int_assign", "int_binary"} /\ k \in {"<<", ">>"} =>
          All(LAMBDA a, b : Signed(b) \in 0 .. Bits - 1)
     /\ f \in OnFloats =>
          \A n \in 1 .. 3, j \in 0 .. width - 1 : (n = 3 /\ f \in OnMasks) \/ IsNumber(r[n][j])
     /\ f = "float_minus" => All(LAMBDA a, b : Magnitude(a) # 0)
     /\ f = "float_not" => All(LAMBDA a, b : a # NegativeZero)
     /\ f = "copysign" => All(LAMBDA a, b : b # NegativeZero)
     /\ f = "clear_bits" => "v4_neon" \notin DOMAIN machine

Init ==
  /\ width \in Widths
  /\ \E d \in Seeds, c \in Classes(width) :
       machine = [i \in c |->
                    [r |-> [n \in 1 .. width |-> [j \in 0 .. width - 1 |-> Register(d, n, j)]],
                     m |-> [x \in 0 .. RowOffset + RowStride(width) * width + width - 1
                              |-> Stored(d, x)]]]
  /\ count = 0

Step(f, k) ==
  /\ count < Depth(width)
  /\ Defined(f, k, machine[Portable(width)].r)
  /\ machine' = [i \in DOMAIN machine |-> Perform(i, f, k, machine[i])]
  /\ count' = count + 1
  /\ UNCHANGED width

Move == \E f \in Moves : \E k \in Inputs[f] : Step(f, k)
Ints == \E f \in OnInts : \E k \in Inputs[f] : Step(f, k)
Floats == \E f \in OnFloats : \E k \in Inputs[f] : Step(f, k)
Access == \E f \in OnMemory : \E p \in {0, width} : Step(f, p)
AccessRows == \E f \in {"load_tr", "store_tr"} : \E cols \in Columned(width) : Step(f, cols)
Trilinear ==
  /\ width = 4
  /\ count < Depth(width)
  /\ \A j \in 0 .. 3 : IsNumber(machine[Portable(width)].r[1][j])
  /\ machine' = [i \in DOMAIN machine |->
                   LET w == Weights(i, machine[i].r[1])
                   IN [machine[i] EXCEPT !.r[1] = w[1], !.r[2] = w[2]]]
  /\ count' = count + 1
  /\ UNCHANGED width

Next == Move \/ Ints \/ Floats \/ Access \/ AccessRows \/ Trilinear
Spec == Init /\ [][Next]_vars

----------------------------------------------------------------------------
(* The loads of 8 and 16 columns take the columns; those of 8 if the rows  *)
(* lie one after the other, those of 16 wherever the rows lie.             *)
WideLoads(m) ==
  LET scattered == [j \in 0 .. 3 |-> <<0, 12, 4, 20>>[j + 1]]
  IN /\ V4n!load_tr("x8", m, Rows) = Columns(m, Rows, 8)
     /\ V4n!load_tr("x16", m, scattered) = Columns(m, scattered, 16)

(* After any of these operations every implementation of a width holds the *)
(* same registers and the same memory: shuffle networks, masks and Newton  *)
(* steps compute what the plain C++ does lane by lane, and no store of a   *)
(* vector or of rows misses a word or spills over its columns.  The        *)
(* accesses of 8 and 16 columns only NEON has load what is in the columns. *)
ImplementationsAgree ==
  /\ \A i \in DOMAIN machine : machine[i] = machine[Portable(width)]
  /\ "v4_neon" \in DOMAIN machine => WideLoads(machine["v4_neon"].m)

(* In every implementation a transposed store puts back what the           *)
(* transposed load of as many columns took, whatever is in memory; but     *)
(* NEON's store of 8 columns, which nothing calls, does not.               *)
StoresUndoLoads ==
  \A i \in DOMAIN machine : \A cols \in Columned(width) : Undone(i, cols, machine[i])
=============================================================================
