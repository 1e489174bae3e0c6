SPECIFICATION Spec
CONSTANTS
    Lessons <- MCLessons
    LessonOf <- MCLessonOf
    Longer <- MCLonger
    Size = 2
    Courses <- MCCourses
    Answers <- MCAnswers
    Viewers = {v1}
    MaxAnswers = 2
    MaxRestarts = 1
INVARIANTS NotesAreGrounded SilenceIsExplained NotesFitTheirLines ExplanationsAreTrue TacticsAreReal
