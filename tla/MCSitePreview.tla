--------------------------- MODULE MCSitePreview ---------------------------
(* An instance of SitePreview for TLC: two entities, one with a revision page *)
(* and one whose iframe has its path with a query, which leads back to the     *)
(* page; a listing that is to be skipped as Listing; and a page without        *)
(* preview.                                                                    *)
EXTENDS SitePreview, TLC

CONSTANTS a, b, revision, query, Listing, listing, plain

MCLands == (query :> b) @@ [p \in Path |-> p]
MCEmbeds == (revision :> a) @@ (b :> query) @@ (plain :> None)
            @@ [p \in Path |-> p]
MCLower == (Listing :> listing) @@ [p \in Path |-> p]
===========================================================================
