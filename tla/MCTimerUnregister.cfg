CONSTANTS
  Channels = {2, 3}
  Keep = {}
  Allow = {}
SPECIFICATION Spec
PROPERTIES LineSurvives
