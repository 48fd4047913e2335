--------------------------- MODULE MCPortfolioNews ---------------------------
(* Instances of PortfolioNews for TLC. *)
EXTENDS PortfolioNews

CONSTANTS a1, a2, x, y

BothTabs == <<"Portfolio News", "Accelerator News">>

\* Two articles about a company of the portfolio; the accelerators' watchlist
\* has that company too, and another one that the first article is about.
WatchApart ==
  [t \in ToSet(BothTabs) |->
     IF t = "Portfolio News" THEN << <<a1, x>>, <<a2, x>> >> ELSE << <<a1, y>>, <<a2, x>> >>]
=============================================================================
