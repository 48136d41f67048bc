---------------------------- MODULE SitePreview ----------------------------
(* next.site_preview.iframe.js: a Drupal page that shows an entity holds an   *)
(* iframe with the page of the Next.js site, and follows the routes that the  *)
(* iframe posts.  The two run in turn with the navigation of the window: a    *)
(* page goes on receiving messages until the next one replaces it, and what   *)
(* was not received by then is lost with it.                                  *)
EXTENDS Naturals, Sequences

CONSTANTS
  Path,       \* what a message or a link can name: a path, with or without a query
  None,       \* no navigation; no iframe
  Other,      \* a message of another type, or without a path
  Lands,      \* Lands[p]: the pathname of the page that Drupal answers p with
  Embeds,     \* Embeds[p]: the route of the iframe on the page with pathname p
  SkipRoutes, \* the routes to skip, as they were configured
  Lower,      \* Lower[p]: p in lower case
  MaxRoutes   \* bound: links that the user follows, and other messages

\* Pathnames lead to themselves.  The route of an iframe may lead to another page,
\* and even to its own page by another path: nothing rules that out.
ASSUME ConfigAssumption ==
  /\ None \notin Path /\ Other \notin Path \cup {None}
  /\ Lands \in [Path -> Path] /\ Embeds \in [Path -> Path \cup {None}]
  /\ SkipRoutes \subseteq Path /\ Lower \in [Path -> Path]
  /\ \A p \in Path : Lands[Lands[p]] = Lands[p]
  /\ MaxRoutes \in Nat

VARIABLES
  pathname, \* window.location.pathname
  route,    \* the route of the iframe, or None
  going,    \* what window.location.href was set to, while that page is loading
  messages, \* posted to the page and not yet received
  attached, \* whether the behaviour has added its listener
  routes,   \* number of links followed and other messages
  last,     \* history: the last path that the user or the iframe asked for
  hasty     \* history: it was asked for before the page had dealt with the one
            \* before, or had its listener

vars == <<pathname, route, going, messages, attached, routes, last, hasty>>

---------------------------------------------------------------------------
\* skip_routes: the page gets the configured routes in lower case.
Skip == {Lower[p] : p \in SkipRoutes}

\* Mutants: other messages are followed; the routes to skip are; the page is loaded
\* whether or not the window is there already.
FollowsOther(path) == path \notin Skip /\ pathname # path
FollowsSkipped(path) == path # Other /\ pathname # path
FollowsAgain(path) == path \notin Skip \cup {Other}

\* Does the handler of "message" set window.location.href to the path?
Follows(path) == path \notin Skip \cup {Other} /\ pathname # path

\* attach() runs for the page, and again for every part that is put into it: a
\* second listener does what the first has done.
Attach ==
  /\ route # None /\ ~attached
  /\ attached' = TRUE
  /\ UNCHANGED <<pathname, route, going, messages, routes, last, hasty>>

\* A later navigation replaces the one that is going on.
Receive ==
  /\ messages # <<>>
  /\ messages' = Tail(messages)
  /\ going' = IF attached /\ Follows(Head(messages)) THEN Head(messages) ELSE going
  /\ UNCHANGED <<pathname, route, attached, routes, last, hasty>>

\* The user follows a link in the iframe, which posts its new route.
Browse(p) ==
  /\ route # None /\ routes < MaxRoutes
  /\ routes' = routes + 1
  /\ route' = p
  /\ messages' = Append(messages, p)
  /\ IF p \in Skip THEN UNCHANGED <<last, hasty>>
     ELSE /\ last' = p
          /\ hasty' = (going # None \/ messages # <<>> \/ ~attached)
  /\ UNCHANGED <<pathname, going, attached>>

\* The iframe, or another script, posts something else.
PostOther ==
  /\ route # None /\ routes < MaxRoutes
  /\ routes' = routes + 1
  /\ messages' = Append(messages, Other)
  /\ UNCHANGED <<pathname, route, going, attached, last, hasty>>

\* The user follows a link of the Drupal page.
Visit(p) ==
  /\ routes < MaxRoutes
  /\ routes' = routes + 1
  /\ going' = p
  /\ last' = p
  /\ hasty' = (messages # <<>>)
  /\ UNCHANGED <<pathname, route, messages, attached>>

\* The new page replaces the old one, its iframe and its messages; the iframe may
\* post its first route.
Load(posts) ==
  LET there == Lands[going]
      first == Embeds[there]
  IN
  /\ going # None
  /\ going' = None
  /\ pathname' = there
  /\ route' = first
  /\ attached' = FALSE
  /\ IF ~posts \/ first = None
     THEN messages' = <<>> /\ UNCHANGED <<last, hasty>>
     ELSE /\ messages' = <<first>>
          /\ IF first \in Skip \cup {there} THEN UNCHANGED <<last, hasty>>
             ELSE last' = first /\ hasty' = TRUE
  /\ UNCHANGED routes

Init ==
  /\ pathname \in {Lands[p] : p \in Path}
  /\ route = Embeds[pathname]
  /\ going = None /\ messages = <<>> /\ attached = FALSE
  /\ routes = 0 /\ last = pathname /\ hasty = FALSE

Next ==
  \/ Attach \/ Receive \/ PostOther
  \/ \E p \in Path : Browse(p) \/ Visit(p)
  \/ \E posts \in BOOLEAN : Load(posts)

\* Scripts run, messages arrive and pages load; whether the user goes on is open.
Fairness ==
  /\ WF_vars(Attach) /\ WF_vars(Receive)
  /\ WF_vars(\E posts \in BOOLEAN : Load(posts))

Spec == Init /\ [][Next]_vars /\ Fairness

---------------------------------------------------------------------------
TypeOK ==
  /\ pathname \in Path
  /\ route \in Path \cup {None}
  /\ going \in Path \cup {None}
  /\ messages \in Seq(Path \cup {Other})
  /\ attached \in BOOLEAN
  /\ routes \in 0..MaxRoutes
  /\ last \in Path
  /\ hasty \in BOOLEAN

\* Iframe.php:114: "route changes inside the iframe preview will be captured and
\* synced with the Drupal site."  When nothing is on its way, the window shows the
\* page of the last route that is not to be skipped: as long as every route is
\* posted to a page that listens and has dealt with the one before.
LastRouteIsShown ==
  going = None /\ messages = <<>> /\ ~hasty => pathname = Lands[last]

\* Pages whose iframes send the window from one to the next, or from a page to itself
\* by another path, with every route that they post.
Sends(p) == Embeds[p] \notin {None, p} \cup Skip
Looping == UNION {S \in SUBSET Path : \A p \in S : Sends(p) /\ Lands[Embeds[p]] \in S}

\* The window stops loading pages (line 36), whatever was posted and skipped, also
\* when the iframe of one page leads to another; or it ends among pages that send it
\* round by their own routes, which nothing in the script or the module prevents.
Settles == <>[](going = None /\ messages = <<>>) \/ <>[](pathname \in Looping)
===========================================================================
