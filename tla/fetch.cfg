SPECIFICATION FetchSpec
CONSTANTS
  Getters = {g1, g2}  Hosts = {h}  PerHost = 1  NoHost = NoHost
  u1 = u1  u2 = u2
  Renderers = {r1, r2}  Urls = {u1, u2}  Starts = {u1}  Blank = Blank  Endless = {u2}
  Recipes <- SomeRecipes
  Engine = "playwright"  MaxIters = 2  MaxItems = 2
INVARIANTS SlotsAddUp PagesAreClosed
PROPERTIES RendersEnd
