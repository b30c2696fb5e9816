--------------------------- MODULE MCCrawlEngine ---------------------------
(***************************************************************************)
(* Instances of CrawlEngine for TLC.                                       *)
(***************************************************************************)
EXTENDS CrawlEngine, TLC

\* Priorities keep the order of SUBTREE_PRIORITY_BY_TYPE and BASE_PRIORITY_BY_TYPE:
\* faculty lists, their pages, details, then listings and org units.

CONSTANTS u, f, g, d, e, o1, o2

\* One org unit u with a faculty list f; its detail pages d and e are the same
\* page under two schemes.
SmallKind == (u :> "unit") @@ (f :> "faculty") @@ (d :> "detail") @@ (e :> "detail")
SmallLinks == (u :> {f, d}) @@ (f :> {d, e}) @@ (d :> {}) @@ (e :> {})
SmallPriority == (u :> 1) @@ (f :> 5) @@ (d :> 3) @@ (e :> 3)
SmallOrg == (u :> o1) @@ (f :> NoOrg) @@ (d :> NoOrg) @@ (e :> NoOrg)
SmallTwins == (u :> {}) @@ (f :> {}) @@ (d :> {e}) @@ (e :> {d})

\* Two org units with a seeded faculty list each, f and g, which both link to d; the
\* first has no home page, so its node u is synthetic.
SharedKind == (u :> "unit") @@ (f :> "faculty") @@ (g :> "faculty") @@ (d :> "detail")
SharedLinks == (u :> {}) @@ (f :> {d}) @@ (g :> {d}) @@ (d :> {})
SharedPriority == (u :> 1) @@ (f :> 5) @@ (g :> 5) @@ (d :> 3)
SharedOrg == (u :> o1) @@ (f :> o1) @@ (g :> o2) @@ (d :> NoOrg)
SharedTwins == (u :> {}) @@ (f :> {}) @@ (g :> {}) @@ (d :> {})
=============================================================================
