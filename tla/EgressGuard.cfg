SPECIFICATION Spec
CONSTANTS
  box = box
  button = button
  form = form
  searchBox = searchBox
  searchForm = searchForm
  clean = clean
  contact = contact
  code = code
  key = key
  Blank = Blank
  NoFocus = NoFocus
  Boxes = {box, searchBox}
  Buttons = {button}
  Forms = {form, searchForm}
  FormOf <- MCFormOf
  Prompts = {clean, contact, code}
  PatternsIn <- ThreePatternsIn
  Policies <- MCPolicies
  MaxOverlays = 2
  MaxAudits = 2
INVARIANTS
  RiskySentOnlyOnContinue
PROPERTIES
  ImplementsGate
