------------------------------- MODULE Arrays -------------------------------
(***************************************************************************)
(* The shape of an array object (back/object.c): for each dimension, how   *)
(* many elements it has and how far apart these lie in the one sequence    *)
(* the array keeps, the last dimension's next to each other.               *)
(***************************************************************************)
EXTENDS Integers, Sequences

\* object_arr_dim_mult: how many elements there are ...
SizeUpTo(lens) == LET p[d \in 0 .. Len(lens)] == IF d = 0 THEN 1 ELSE p[d - 1] * lens[d] IN p
Size(lens)     == SizeUpTo(lens)[Len(lens)]

\* ... and how far apart: what is left of that number, divided by each dimension
\* in turn; a dimension without elements has 1 and leaves it as it is.
DividedBy(n, len) == IF len = 0 THEN n ELSE n \div len
MultUpTo(lens) == LET r[d \in 0 .. Len(lens)] == IF d = 0 THEN Size(lens) ELSE DividedBy(r[d - 1], lens[d]) IN r
MultNotDivided(lens, d) == MultUpTo(lens)[d - 1]       \* mutant: before the division
MultOf(lens, d) == IF lens[d] = 0 THEN 1 ELSE MultUpTo(lens)[d]
DimVec(lens) == [d \in DOMAIN lens |-> [elems |-> lens[d], mult |-> MultOf(lens, d)]]
Lens(dv)     == [d \in DOMAIN dv |-> dv[d].elems]

\* object_arr_dim_addr: whether the indices, none of them negative, are inside,
\* and where that is.
InBounds(dv, index) == \A d \in DOMAIN dv : index[d] < dv[d].elems
AddrUpTo(dv, index) ==
  LET a[d \in 0 .. Len(dv)] == IF d = 0 THEN 0 ELSE a[d - 1] + dv[d].mult * index[d] IN a
AddrOf(dv, index) == AddrUpTo(dv, index)[Len(dv)]

\* object_arr_append, of an array of one dimension.
Longer(dv) == <<[dv[1] EXCEPT !.elems = @ + 1]>>

\* object_arr_can_add and object_arr_can_mult.
CanAdd(dv1, dv2)  == Lens(dv1) = Lens(dv2)
CanMult(dv1, dv2) == Len(dv1) = 2 /\ Len(dv2) = 2 /\ dv1[2].elems = dv2[1].elems

\* The loops of vm_execute_op_mul_arr_arr_int over two matrices, row by row.
ProductDims(dv1, dv2) == <<dv1[1].elems, dv2[2].elems>>
ProductAt(dv1, s1, dv2, s2, i, j) ==
  LET sum[k \in 0 .. dv1[2].elems] ==
        IF k = 0 THEN 0
        ELSE sum[k - 1] + s1[i * dv1[2].elems + k] * s2[(k - 1) * dv2[2].elems + j + 1]
  IN  sum[dv1[2].elems]
Product(dv1, s1, dv2, s2) ==
  [e \in 1 .. Size(ProductDims(dv1, dv2)) |->
     ProductAt(dv1, s1, dv2, s2, (e - 1) \div dv2[2].elems, (e - 1) % dv2[2].elems)]
=============================================================================
