SPECIFICATION Spec
CONSTANTS
  None = None
  tail = tail  titled = titled  poison = poison  bank = bank  person = person
  SourceId = {s1, s2}  DocumentId = {d1, d2, d3, d4}  Locator = {l1, l2}  NamedLocator = {l1}
  Content = {tail, titled, poison}  Poisoned = {poison}
  Naming = {poison}  Titled = {titled}  Tailed = {tail, titled, poison}
  Entity = {bank, person}  TermEntity = {person}  Mentioned <- MCMentioned
  Call = {r1, r2}
\* The ids run out.
CHECK_DEADLOCK FALSE
SYMMETRY Symmetry
INVARIANTS TypeOK OneVersionPerSource DocumentsWhole MinedUnlessQuarantined
           EntitiesMentioned ErasedFromText SearchAnswers
