SPECIFICATION ReadersSpec
CONSTANTS
  p1 = p1 p2 = p2 p3 = p3
  w1 = w1 w2 = w2
  Interview = {i1}
  Moderator = {m1, m2}
  Hours = 2 DueDays = 1 Horizon = 4
  Crowd = {w1, w2}
  Product = {p1, p2, p3}
  Fee = {f1}
  Market = {1, 2}
  Catalogs <- MCCatalogs
  Proposals <- MCProposals
  Tables <- MCTables
  People = {1}
  InquiryEdits = 1
  InquiryFaults = {"products", "markets", "fees", "difficulties", "population", "assessment"}
  q1 = q1 n1 = n1
  Project = {q1, q2}
  Name = {n1, n2}
  Account = {a1, a2}
  Person = {r1}
  Export = {e1, e2}
  Visit = {v1, v2}
  CatalogueFaults = {"statement", "call"}
  CatalogueEdits = 1
  c1 = c1 c2 = c2
  Sample = {c1, c2}
  Panelist = {g1}
  Level = {1}
  Reader = {u1, u2}
  Admin = {u2}
  Favoring = {h1, h2}
  SurveyEdits = 1
  SurveyFaults = {"survey", "crowds", "deleted", "slots", "leave", "write", "favorite", "kind", "level", "available", "eligible", "currency"}
INVARIANTS  ProposalsAddUp CatalogueIsSound SurveyPagesAgree
SYMMETRY AlikeReaders
CHECK_DEADLOCK FALSE
