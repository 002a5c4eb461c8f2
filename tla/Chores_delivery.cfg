SPECIFICATION Spec
CONSTANTS
  Slug = {p1, p2, p3}
  Vocabulary = {"x"}
  Defaults = {"divisions", "list_url"}
  MaxEvents = 2
INVARIANTS
  TypeOK CheckedMeansApplied ChosenMeansApplied ListedOrSaid
PROPERTIES
  TagsAreTheRowsOwn
SYMMETRY Symmetry
