SPECIFICATION Spec
CONSTANTS
    b1 = b1  b2 = b2  a = a  b = b  c = c  p = p  e = e
    Blogs = {b1, b2}
    Terms = {1, 2, 3, 4}
    Extras = {e}
    Slugs = {a, b, c}
    Products = {p}
    First = b1
    Stores <- MCStores
    MaxEdits = 3
    None = None
PROPERTIES CarriesTheTree KeepsItsTerm ReslugStaysMapped ReplansToNothing
CHECK_DEADLOCK FALSE
