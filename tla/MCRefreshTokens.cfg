SPECIFICATION Spec
CONSTANTS
  NoRow = NoRow
  NoToken = NoToken
  Users = {u1}
  Apps = {a1}
  Sessions = {s1, s2}
  Families = {f1, f2}
  Overlap = {f2}
  Tokens = {t1, t2, t3}
  Workers = {w1, w2}
SYMMETRY Symmetry
INVARIANT AtMostOneLive
PROPERTIES DeadStaysDead FamilySpec
