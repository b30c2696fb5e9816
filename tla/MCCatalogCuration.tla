-------------------------- MODULE MCCatalogCuration --------------------------
(***************************************************************************)
(* Three builds of one university: its crawl database holds the first of   *)
(* three people, the second, two of them with a row that cannot be         *)
(* imported, or the last of an incomplete crawl.  Two rows share a strong  *)
(* claim and two a weak one; the IDs and the source keys are in different  *)
(* orders.                                                                 *)
(***************************************************************************)
EXTENDS CatalogCuration

C(kind, value) == [kind |-> kind, value |-> value]
DB(rows, bad, complete) ==
    [rows |-> rows, bad |-> bad, complete |-> complete, lacking |-> bad # {}]

MCHome == <<1, 1, 1>>
MCKey == <<2, 3, 1>>
MCCrawls ==
    <<{DB({2}, {}, TRUE), DB({3}, {}, TRUE), DB({1, 2}, {4}, TRUE), DB({1}, {}, FALSE)}>>
MCClaims == <<{C("external_identity", 1), C("email", 1)},
              {C("external_identity", 1), C("weak_org_name", 1)},
              {C("weak_org_name", 1), C("email", 2), C("listing_name_url", 1)}>>
=============================================================================
