------------------------------- MODULE Steps -------------------------------
(***************************************************************************)
(* What a vector kernel can do next with one of the register classes of    *)
(* util/v4, v8 and v16, whichever class that is: the operations are the    *)
(* parameters.  A kernel's state s is a sequence s.r of registers and a    *)
(* memory s.m; operands are the first registers, the result goes to the    *)
(* first.                                                                  *)
(***************************************************************************)
EXTENDS LaneWords

CONSTANTS
  Lanes,
  any(_), all(_), splat(_, _), shuffle(_, _), swap(_, _), transpose(_),
  load(_, _), store(_, _, _), stream(_, _, _), clear(_, _), copy(_, _, _),
  swap_mem(_, _, _), load_tr(_, _, _), store_tr(_, _, _, _),
  int_scalar(_), int_scalars(_), int_assign(_, _, _), int_prefix(_, _),
  int_not(_), int_prefix_incdec(_, _), int_postfix_incdec(_, _),
  int_binary(_, _, _), int_logical(_, _, _), abs(_),
  czero(_, _), notczero(_, _), merge(_, _, _),
  float_scalar(_), float_scalars(_), float_assign(_, _, _), float_plus(_),
  float_minus(_), float_not(_), float_prefix_inc(_), float_prefix_dec(_),
  float_postfix_inc(_), float_postfix_dec(_), float_binary(_, _, _),
  float_logical(_, _, _), cmath_fr1(_, _), cmath_fr2(_, _), copysign(_, _),
  rsqrt_approx(_), rsqrt(_), rcp_approx(_), rcp(_),
  fma(_, _, _), fms(_, _, _), fnms(_, _, _),
  clear_bits(_, _), set_bits(_, _), toggle_bits(_, _),
  increment(_, _, _), decrement(_, _, _), scale(_, _, _)

First(r, v) == v \o SubSeq(r, Len(v) + 1, Len(r))
InOrder(a) == [n \in 1 .. Lanes |-> a[n - 1]]

(* The registers after the operation f with input k, which leaves the      *)
(* memory alone.                                                           *)
Registers(f, k, r) ==
  LET a == r[1]
      b == r[2]
      c == r[3]
      To(v) == First(r, <<v>>)
  IN CASE f = "any" -> To(int_scalar(IF any(a) THEN 1 ELSE 0))
       [] f = "all" -> To(int_scalar(IF all(a) THEN 1 ELSE 0))
       [] f = "splat" -> To(splat(k, a))
       [] f = "shuffle" -> To(shuffle([j \in 0 .. Lanes - 1 |-> (3 * j + k) % Lanes], a))
       [] f = "swap" -> First(r, swap(a, b))
       [] f = "transpose" -> First(r, transpose(SubSeq(r, 1, Lanes)))
       [] f = "int_scalars" -> To(int_scalars(InOrder(a)))
       [] f = "int_assign" -> To(int_assign(k, a, b))
       [] f = "int_prefix" -> To(int_prefix(k, a))
       [] f = "int_not" -> To(int_not(a))
       [] f = "int_prefix_incdec" -> To(int_prefix_incdec(k, a))
       [] f = "int_postfix_incdec" -> First(r, int_postfix_incdec(k, a))
       [] f = "int_binary" -> To(int_binary(k, a, b))
       [] f = "int_logical" -> To(int_logical(k, a, b))
       [] f = "abs" -> To(abs(a))
       [] f = "czero" -> To(czero(c, a))
       [] f = "notczero" -> To(notczero(c, a))
       [] f = "merge" -> To(merge(c, a, b))
       [] f = "float_scalar" -> To(float_scalar(a[k]))
       [] f = "float_scalars" -> To(float_scalars(InOrder(a)))
       [] f = "float_assign" -> To(float_assign(k, a, b))
       [] f = "float_plus" -> To(float_plus(a))
       [] f = "float_minus" -> To(float_minus(a))
       [] f = "float_not" -> To(float_not(a))
       [] f = "float_prefix_inc" -> To(float_prefix_inc(a))
       [] f = "float_prefix_dec" -> To(float_prefix_dec(a))
       [] f = "float_postfix_inc" -> First(r, float_postfix_inc(a))
       [] f = "float_postfix_dec" -> First(r, float_postfix_dec(a))
       [] f = "float_binary" -> To(float_binary(k, a, b))
       [] f = "float_logical" -> To(float_logical(k, a, b))
       [] f = "cmath_fr1" -> To(cmath_fr1(k, a))
       [] f = "cmath_fr2" -> To(cmath_fr2(a, b))
       [] f = "copysign" -> To(copysign(a, b))
       [] f = "rsqrt_approx" -> To(rsqrt_approx(a))
       [] f = "rsqrt" -> To(rsqrt(a))
       [] f = "rcp_approx" -> To(rcp_approx(a))
       [] f = "rcp" -> To(rcp(a))
       [] f = "fma" -> To(fma(a, b, c))
       [] f = "fms" -> To(fms(a, b, c))
       [] f = "fnms" -> To(fnms(a, b, c))
       [] f = "clear_bits" -> To(clear_bits(c, a))
       [] f = "set_bits" -> To(set_bits(c, a))
       [] f = "toggle_bits" -> To(toggle_bits(c, a))

(* The memory after a store or a change of the vector at p; the other      *)
(* vector of a copy or swap is the one after it.                           *)
Memory(f, p, s) ==
  LET a == s.r[1]
      m == s.m
  IN CASE f = "store" -> store(m, p, a)
       [] f = "stream" -> stream(m, p, a)
       [] f = "clear" -> clear(m, p)
       [] f = "copy" -> copy(m, p, p + Lanes)
       [] f = "swap_mem" -> swap_mem(m, p, p + Lanes)
       [] f = "increment" -> increment(m, p, a)
       [] f = "decrement" -> decrement(m, p, a)
       [] f = "scale" -> scale(m, p, a)

OnMemory == {"store", "stream", "clear", "copy", "swap_mem", "increment", "decrement", "scale"}

(* One operation, with input k; transposed accesses are of the rows at p.  *)
Perform(f, k, p, s) ==
  CASE f = "load" -> [s EXCEPT !.r = First(s.r, <<load(s.m, k)>>)]
    [] f \in OnMemory -> [s EXCEPT !.m = Memory(f, k, s)]
    [] f = "load_tr" -> [s EXCEPT !.r = First(s.r, load_tr(k, s.m, p))]
    [] f = "store_tr" -> [s EXCEPT !.m = store_tr(k, s.m, p, s.r)]
    [] OTHER -> [s EXCEPT !.r = Registers(f, k, s.r)]

(* Whether rows loaded and stored over erased memory load again as before. *)
Undone(cols, p, s) ==
  LET v == load_tr(cols, s.m, p)
      erased == [x \in DOMAIN s.m |-> 0]
  IN load_tr(cols, store_tr(cols, erased, p, v), p) = v
=============================================================================
