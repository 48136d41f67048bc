SPECIFICATION Spec
INVARIANTS TypeOK LastRouteIsShown
PROPERTY Settles
CHECK_DEADLOCK FALSE
CONSTANTS
  a = a
  b = b
  revision = revision
  query = query
  Listing = Listing
  listing = listing
  plain = plain
  Path = {a, b, revision, query, Listing, listing, plain}
  None = None
  Other = Other
  Lands <- MCLands
  Embeds <- MCEmbeds
  SkipRoutes = {Listing}
  Lower <- MCLower
  MaxRoutes = 4
