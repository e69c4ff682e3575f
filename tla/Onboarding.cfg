CONSTANTS
  Emails = {known, new, other}
  Registered = {known}
  Conversations = {c1}
  Turns = {t1, t2}
  MaxFaults = 2
SPECIFICATION Spec
SYMMETRY Alike
INVARIANTS OnboardingTypeOK CompletedIsLinked
PROPERTIES OfferIsWhatIsMade KeepsOnboardingContract
