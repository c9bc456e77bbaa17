----------------------------- MODULE MCCatalog ------------------------------
(* A small instance of Catalog for TLC.  Price 1 has more decimals than      *)
(* to_string shows, price 7 more digits than an ostream.                     *)
EXTENDS Catalog

MCPrinted(price) == IF price = 7 THEN 6 ELSE price
MCFixed(price) == IF price = 1 THEN 0 ELSE price
MCHashed(id) == "ID-" \o id

Of2(price, stock) == [price |-> price, stock |-> stock]
Line(product, qty, price) == [product |-> product, qty |-> qty, price |-> price]
MCDatasets ==
    { [prod |-> ("a" :> Of2(3, 1)) @@ ("b" :> Of2(5, 2)),
       ord |-> "o" :> <<Line("a", 1, 3), Line("a", 2, 3), Line("b", 1, 5)>>],
      [prod |-> "a" :> Of2(5, 2),
       ord |-> ("o" :> <<Line("a", 12, 3)>>) @@ ("u" :> <<Line("a", 1, 3), Line("b", 3, 2), Line("a", 1, 2)>>)],
      [prod |-> "b" :> Of2(1, 0), ord |-> "o" :> <<Line("b", 3, 5)>>] }
Digits(first, rest) == [first |-> first, rest |-> rest]
MCPolicies ==
    { [floor |-> 4, ceil |-> 5, qty |-> Digits(1, 2)], [floor |-> 7, ceil |-> 0, qty |-> Digits(5, 0)],
      [floor |-> 0, ceil |-> 3, qty |-> Digits(0, 0)] }

Op(op, id, to) == [op |-> op, id |-> id, to |-> to]
MCBatches ==
    { <<Op("set-price", "a", 7), Op("set-stock", "a", 2), Op("rename", "b", 0)>>,
      <<Op("add-product", "c", Of2(3, 1)), Op("set-stock", "c", 0)>> }
=============================================================================
