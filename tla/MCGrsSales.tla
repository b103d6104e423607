------------------------------ MODULE MCGrsSales ------------------------------
(***************************************************************************)
(* GrsSales for TLC, with the history of each lot: what it was listed at,  *)
(* what buyers took of it on any chain and what they paid.                 *)
(***************************************************************************)
EXTENDS GrsSales

\* One of each gate: the spoke's peer, the home chain's bucket, two rows.
MCRewirable == {<<c, Home>> : c \in Spokes}
MCCrowded   == {<<Home, c>> : c \in Spokes}
MCExposed   == {<<Home, MaxSales>>} \cup {<<c, 1>> : c \in Spokes}

VARIABLES listed, sold, paid

historyVars == <<vars, listed, sold, paid>>

HistoryInit ==
    /\ Init
    /\ listed = [i \in Ids |-> NoSale]
    /\ sold = [i \in Ids |-> 0] /\ paid = [i \in Ids |-> 0]

ListStep ==
    \E a \in Quotes, g \in LotSizes :
      /\ AppendSale(a, g)
      /\ listed' = [listed EXCEPT ![saleCount'[Home]] = SaleRow(g, a)]
      /\ UNCHANGED <<sold, paid>>

BuyStep ==
    \E c \in Chains, i \in Ids, n \in Amounts :
      /\ Buy(c, i, n)
      /\ sold' = [sold EXCEPT ![i] = @ + n]
      /\ paid' = [paid EXCEPT ![i] = @ + sale[c][i].asset - sale'[c][i].asset]
      /\ UNCHANGED listed

OtherStep == OtherNext /\ UNCHANGED <<listed, sold, paid>>

HistorySpec == HistoryInit /\ [][ListStep \/ BuyStep \/ OtherStep]_historyVars

\* Buyers get what was listed and pay what was asked, wherever they buy and in whatever
\* pieces: no set of purchases pays more than the list price of what it took, a lot
\* that is sold out brought in exactly its asset_amount, and no lot is sold twice, on
\* the home chain and on a spoke.
SoldAtListPrice ==
    \A i \in Ids :
      /\ sold[i] <= listed[i].grs
      /\ paid[i] * listed[i].grs <= listed[i].asset * sold[i]
      /\ sold[i] > 0 /\ sold[i] = listed[i].grs => paid[i] = listed[i].asset

===============================================================================
