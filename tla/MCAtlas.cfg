SPECIFICATION Spec
CONSTANTS
  t1 = t1
  t2 = t2
  nowhere = nowhere
  leg1 = leg1
  leg2 = leg2
  ev = ev
  p1 = p1
  p2 = p2
  s1 = s1
  nobody = nobody
  art = art
  other = other
  none = none
  Target <- TwoTargets
  NoTarget = nowhere
  LegName <- TwoLegs
  Evidence <- OneEvidence
  Participant <- TwoParticipants
  Scope <- OneScope
  NoOne = nobody
  Artifact <- TwoArtifacts
  NoArtifact = none
  Envelopes <- AllEnvelopes
  Expectations <- OursOrTheirs
  Observed <- NothingOrOther
  Views <- AllViews
  MaxAge = 1
  MaxTime = 1
  Legacy = FALSE
  AllowPublication = TRUE
INVARIANTS TypeOK AcceptIsAuthority EffectsAuthorized ConfirmedWhereAuthorized
