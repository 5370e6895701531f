------------------------------- MODULE Totals -------------------------------
(***************************************************************************)
(* The sum of a sequence of sizes, which the budgets of the compilers are  *)
(* compared with.                                                          *)
(***************************************************************************)
EXTENDS Naturals, Sequences

Total(sizes) ==
    LET f[n \in 0 .. Len(sizes)] == IF n = 0 THEN 0 ELSE f[n - 1] + sizes[n]
    IN  f[Len(sizes)]

=============================================================================
