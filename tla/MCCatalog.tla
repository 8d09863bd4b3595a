------------------------------ MODULE MCCatalog ------------------------------
(* Two products that may swap codes, and one alias.                        *)
EXTENDS Catalog, TLC

CONSTANTS p1, p2, x, y

Form(p, s, b, act) == <<p, [sku |-> s, barcode |-> b, active |-> act]>>
MCForms == { Form(p1, x, None, TRUE), Form(p1, x, None, FALSE),
             Form(p2, y, x, TRUE), Form(p2, y, None, TRUE) }

\* An alias on a code of its product's neighbour, by barcode or by SKU.
MCAliasRows ==
    { [product |-> p1, barcode |-> y, sku |-> None, active |-> TRUE],
      [product |-> p1, barcode |-> None, sku |-> y, active |-> FALSE] }

EditorSymmetry == Permutations(Editors)
=============================================================================
